---- MODULE Spec2Model ----
(***************************************************************************)
(* Replacement prediction engine and lifespan resolution of the spare      *)
(* parts agent (src/structured_ai_agent.py, src/ai_lifespan_lookup.py).    *)
(*                                                                         *)
(* Conventions of the translation                                          *)
(*  - Python str values are TLA+ strings; lower(), strip(), isdigit(),     *)
(*    re.findall(r'\d+') and `w in s` are computed character by character. *)
(*  - An Optional[int] is a record [some, v]; None is [some |-> FALSE].    *)
(*  - A call that can raise returns a record with a field `raised`.        *)
(*  - A datetime is [t, aware, off]: t is the wall-clock instant in ticks  *)
(*    (TicksPerDay ticks per day, day 0 = an arbitrary epoch date), aware  *)
(*    tells whether it carries a tzinfo and off is its UTC offset in ticks.*)
(*  - sum(intervals) / len(intervals) is kept as the exact fraction        *)
(*    [num, den]; timedelta(days=avg) is exact for the denominators the    *)
(*    bounds produce (86400e6 microseconds divide by 1..6).                *)
(***************************************************************************)
EXTENDS Integers, Sequences, FiniteSets, TLC

VARIABLES
    spare_parts,   \* self.data['spare_parts']: the replacement records
    machines,      \* self.data['machines']: the machine reference records
    use_openai,    \* self.use_openai / AILifespanLookup.use_openai (same env var)
    serpapi_key,   \* whether SERPAPI_API_KEY is set in the environment
    ret            \* the last call made on the agent or its lookup: its name,
                   \* its inputs (arguments, clock, AI service behaviour) and
                   \* what it returned or that it raised

vars == <<spare_parts, machines, use_openai, serpapi_key, ret>>

----------------------------------------------------------------------------
(* Python str operations *)

UpperCase == "ABCDEFGHIJKLMNOPQRSTUVWXYZ"
LowerCase == "abcdefghijklmnopqrstuvwxyz"
Digits == "0123456789"

CharAt(s, i) == SubSeq(s, i, i)

\* str.lower() of one ASCII character, int() of one digit
LowerOf == [c \in {CharAt(UpperCase, i) : i \in 1..26} |->
               CharAt(LowerCase, CHOOSE i \in 1..26 : CharAt(UpperCase, i) = c)]
UpperOf == [c \in {CharAt(LowerCase, i) : i \in 1..26} |->
               CharAt(UpperCase, CHOOSE i \in 1..26 : CharAt(LowerCase, i) = c)]
DigitOf == [c \in {CharAt(Digits, i) : i \in 1..10} |->
               (CHOOSE i \in 1..10 : CharAt(Digits, i) = c) - 1]

lowerChar(c) == IF c \in DOMAIN LowerOf THEN LowerOf[c] ELSE c

RECURSIVE lower(_)
lower(s) == IF Len(s) = 0 THEN "" ELSE lowerChar(CharAt(s, 1)) \o lower(SubSeq(s, 2, Len(s)))

\* str.upper()
upperChar(c) == IF c \in DOMAIN UpperOf THEN UpperOf[c] ELSE c

RECURSIVE upper(_)
upper(s) == IF Len(s) = 0 THEN "" ELSE upperChar(CharAt(s, 1)) \o upper(SubSeq(s, 2, Len(s)))

\* `w in s` for two str
contains(w, s) == \E i \in 1..(Len(s) - Len(w) + 1) : SubSeq(s, i, i + Len(w) - 1) = w

\* any(word in s for word in words)
AnyWordIn(words, s) == \E w \in words : contains(w, s)

IsDigitChar(c) == c \in DOMAIN DigitOf

\* str.isdigit(): non-empty and every character a digit
isdigit(s) == Len(s) > 0 /\ \A i \in 1..Len(s) : IsDigitChar(CharAt(s, i))

\* str.strip() of blanks
RECURSIVE strip(_)
strip(s) ==
    IF Len(s) = 0 THEN ""
    ELSE IF CharAt(s, 1) = " " THEN strip(SubSeq(s, 2, Len(s)))
    ELSE IF CharAt(s, Len(s)) = " " THEN strip(SubSeq(s, 1, Len(s) - 1))
    ELSE s

\* int(s) for a str of digits
RECURSIVE int(_)
int(s) ==
    IF Len(s) = 0 THEN 0
    ELSE 10 * int(SubSeq(s, 1, Len(s) - 1)) + DigitOf[CharAt(s, Len(s))]

\* re.findall(r'\d+', s)[0]: the first maximal run of digits, "" when s has no digit
FirstDigitRun(s) ==
    IF \E i \in 1..Len(s) : IsDigitChar(CharAt(s, i))
    THEN LET first == CHOOSE i \in 1..Len(s) :
                          /\ IsDigitChar(CharAt(s, i))
                          /\ \A j \in 1..(i - 1) : ~IsDigitChar(CharAt(s, j))
             last  == CHOOSE k \in first..Len(s) :
                          /\ \A j \in first..k : IsDigitChar(CharAt(s, j))
                          /\ (k = Len(s) \/ ~IsDigitChar(CharAt(s, k + 1)))
         IN  SubSeq(s, first, last)
    ELSE ""

(* Optional[int] *)
None == [some |-> FALSE, v |-> 0]
Some(n) == [some |-> TRUE, v |-> n]
\* `if x:` for an Optional[int]
Truthy(x) == x.some /\ x.v # 0

\* A str-valued JSON field: a str, null, or the key missing from the record
Str(s) == [kind |-> "str", s |-> s]
NullStr == [kind |-> "null", s |-> ""]
Absent == [kind |-> "absent", s |-> ""]

\* An identifier field: a JSON number, a JSON string, or null / missing (None)
IntId(n) == [typ |-> "int", n |-> n, s |-> ""]
StrId(s) == [typ |-> "str", n |-> 0, s |-> s]
NoneId == [typ |-> "none", n |-> 0, s |-> ""]
\* f"{part_id}"
FormatId(id) == IF id.typ = "int" THEN ToString(id.n) ELSE IF id.typ = "str" THEN id.s ELSE "None"

----------------------------------------------------------------------------
(* src/ai_lifespan_lookup.py: the two name classifiers *)

FilterWords == {"filter", "filtro", "air filter", "oil filter", "fuel filter",
                "hydraulic filter", "cabin filter", "element"}
BearingWords == {"bearing", "cuscinetto", "ball bearing", "roller bearing",
                 "thrust bearing", "pillow block"}
BeltWords == {"belt", "cintura", "v-belt", "serpentine", "timing belt",
              "drive belt", "fan belt"}
SensorWords == {"sensor", "sensore", "temperature sensor", "pressure sensor",
                "proximity sensor", "level sensor", "flow sensor"}
MotorWords == {"motor", "motore", "pump", "pompa", "electric motor",
               "hydraulic pump", "gear pump"}
SealWords == {"seal", "gasket", "guarnizione", "o-ring", "oil seal",
              "hydraulic seal", "shaft seal"}
ElectricalWords == {"switch", "relay", "contactor", "fuse", "circuit breaker",
                    "transformer", "capacitor"}
HydraulicWords == {"hydraulic", "cylinder", "valve", "hose", "fitting", "accumulator"}

\* a classifier that tests the hydraulic keywords before the others
CategorizeWrongOrder(part_name) ==
    LET n == lower(part_name) IN
    IF AnyWordIn(HydraulicWords, n) THEN "hydraulic"
    ELSE IF AnyWordIn(FilterWords, n) THEN "filter"
    ELSE IF AnyWordIn(BearingWords, n) THEN "bearing"
    ELSE IF AnyWordIn(BeltWords, n) THEN "belt"
    ELSE IF AnyWordIn(SensorWords, n) THEN "sensor"
    ELSE IF AnyWordIn(MotorWords, n) THEN "motor"
    ELSE IF AnyWordIn(SealWords, n) THEN "seal"
    ELSE IF AnyWordIn(ElectricalWords, n) THEN "electrical"
    ELSE "general"

\* _categorize_part(part_name) for a str part_name
_categorize_part(part_name) ==
    LET part_name_lower == lower(part_name) IN
    IF AnyWordIn(FilterWords, part_name_lower) THEN "filter"
    ELSE IF AnyWordIn(BearingWords, part_name_lower) THEN "bearing"
    ELSE IF AnyWordIn(BeltWords, part_name_lower) THEN "belt"
    ELSE IF AnyWordIn(SensorWords, part_name_lower) THEN "sensor"
    ELSE IF AnyWordIn(MotorWords, part_name_lower) THEN "motor"
    ELSE IF AnyWordIn(SealWords, part_name_lower) THEN "seal"
    ELSE IF AnyWordIn(ElectricalWords, part_name_lower) THEN "electrical"
    ELSE IF AnyWordIn(HydraulicWords, part_name_lower) THEN "hydraulic"
    ELSE "general"

\* _get_fallback_lifespan(part_name) for a str part_name, in months
_get_fallback_lifespan(part_name) ==
    LET part_name_lower == lower(part_name) IN
    IF AnyWordIn({"air filter", "engine air", "cabin filter"}, part_name_lower) THEN 6
    ELSE IF AnyWordIn({"oil filter", "hydraulic filter", "fuel filter"}, part_name_lower) THEN 6
    ELSE IF AnyWordIn({"filter", "filtro", "element"}, part_name_lower) THEN 6
    ELSE IF AnyWordIn({"bearing", "cuscinetto", "ball bearing", "roller"}, part_name_lower) THEN 36
    ELSE IF AnyWordIn({"belt", "cintura", "v-belt", "serpentine", "timing"}, part_name_lower) THEN 18
    ELSE IF AnyWordIn({"sensor", "sensore", "temperature", "pressure"}, part_name_lower) THEN 30
    ELSE IF AnyWordIn({"motor", "motore", "pump", "pompa"}, part_name_lower) THEN 60
    ELSE IF AnyWordIn({"seal", "gasket", "guarnizione", "o-ring"}, part_name_lower) THEN 24
    ELSE IF AnyWordIn({"switch", "relay", "contactor", "electrical"}, part_name_lower) THEN 36
    ELSE IF AnyWordIn({"hydraulic", "cylinder", "valve", "hose"}, part_name_lower) THEN 30
    ELSE 18

----------------------------------------------------------------------------
(* src/ai_lifespan_lookup.py: AILifespanLookup.get_ai_lifespan *)

\* What openai.ChatCompletion.create does on one call: it raises (network error,
\* timeout, missing content) or returns a message whose content is a str.
AIRaises == [raises |-> TRUE, content |-> ""]
AIAnswers(content) == [raises |-> FALSE, content |-> content]

\* a parser that accepts an answer only when all of it is a number
ParseWholeAnswerOnly(response) ==
    LET cleaned == strip(lower(response)) IN
    IF isdigit(cleaned) THEN Some(int(cleaned)) ELSE None

\* _parse_lifespan_response(response): Optional[int]
_parse_lifespan_response(response) ==
    LET cleaned == strip(lower(response)) IN
    IF isdigit(cleaned) THEN Some(int(cleaned))
    ELSE IF FirstDigitRun(cleaned) # "" THEN Some(int(FirstDigitRun(cleaned)))
    ELSE None

\* The call self._get_fallback_lifespan(part_name): part_name.lower() raises
\* AttributeError when part_name is None. stages lists the stages entered so far.
FallbackCall(part_name, stages) ==
    IF part_name.kind # "str"
    THEN [raised |-> TRUE, value |-> None, stages |-> Append(stages, "category")]
    ELSE [raised |-> FALSE, value |-> Some(_get_fallback_lifespan(part_name.s)),
          stages |-> Append(stages, "category")]

\* a lookup that consults the web search estimator between the AI and the table
GetAiLifespanWithSearch(part_name, ai) ==
    IF ~use_openai \/ part_name.kind # "str"
    THEN FallbackCall(part_name, <<>>)
    ELSE IF ~ai.raises /\ Truthy(_parse_lifespan_response(strip(ai.content)))
    THEN [raised |-> FALSE, value |-> _parse_lifespan_response(strip(ai.content)),
          stages |-> <<"ai">>]
    ELSE FallbackCall(part_name, IF serpapi_key THEN <<"ai", "web_search">> ELSE <<"ai">>)

\* a lookup that asks the AI service whether or not a credential is configured
GetAiLifespanAlwaysAsks(part_name, ai) ==
    IF part_name.kind # "str"
    THEN FallbackCall(part_name, <<>>)
    ELSE IF ~ai.raises /\ Truthy(_parse_lifespan_response(strip(ai.content)))
    THEN [raised |-> FALSE, value |-> _parse_lifespan_response(strip(ai.content)),
          stages |-> <<"ai">>]
    ELSE FallbackCall(part_name, <<"ai">>)

\* get_ai_lifespan(part_name, machine_name, manufacturer); ai is what the AI
\* service does if it is called. The result is [raised, value, stages].
get_ai_lifespan(part_name, ai) ==
    IF ~use_openai
    THEN FallbackCall(part_name, <<>>)
    ELSE \* try:
         IF part_name.kind # "str"
         THEN \* _create_intelligent_prompt -> _categorize_part: None.lower() raises,
              \* the handler calls _get_fallback_lifespan(part_name)
              FallbackCall(part_name, <<>>)
         ELSE IF ai.raises
         THEN FallbackCall(part_name, <<"ai">>)
         ELSE LET result == strip(ai.content)
                  parsed == _parse_lifespan_response(result)
              IN  IF Truthy(parsed)
                  THEN [raised |-> FALSE, value |-> parsed, stages |-> <<"ai">>]
                  ELSE FallbackCall(part_name, <<"ai">>)

----------------------------------------------------------------------------
(* datetime, timedelta and the REPLACEDATE field *)

TicksPerDay == 2

Naive(t) == [t |-> t, aware |-> FALSE, off |-> 0]
Aware(t, off) == [t |-> t, aware |-> TRUE, off |-> off]

\* the instant two aware datetimes are compared and subtracted by; a naive one by t
Instant(dt) == dt.t - dt.off

\* (b - a).days: timedelta.days is the floor of the difference in days
DaysBetween(a, b) == (Instant(b) - Instant(a)) \div TicksPerDay

\* dt.strftime("%Y-%m-%d"): the calendar day of the wall-clock time, as a day number
DateString(t) == t \div TicksPerDay

\* REPLACEDATE: JSON null, "", the sentinel "NULL", a text dateutil cannot parse,
\* or a text dateutil.parser.parse(.., fuzzy=True) turns into the datetime dt
NoDate(kind) == [kind |-> kind, dt |-> Naive(0)]
DateText(dt) == [kind |-> "date", dt |-> dt]

\* a date test that hands every non-empty text to the parser and takes its result
ParsesEveryText(replace_date) == replace_date.kind \notin {"null", "empty"}

\* `if replace_date and replace_date != "NULL":` followed by a parse that succeeds
ParsesToDate(replace_date) ==
    /\ replace_date.kind \notin {"null", "empty"}
    /\ replace_date.kind # "NULL"
    /\ replace_date.kind # "garbage"

Range(seq) == {seq[i] : i \in 1..Len(seq)}

RECURSIVE SumSeq(_)
SumSeq(seq) == IF seq = <<>> THEN 0 ELSE Head(seq) + SumSeq(Tail(seq))

\* list.sort() of datetimes that are all naive or all aware
RECURSIVE SortDates(_)
SortDates(dates) ==
    IF Len(dates) <= 1 THEN dates
    ELSE LET i == CHOOSE k \in 1..Len(dates) :
                      \A m \in 1..Len(dates) :
                          \/ Instant(dates[k]) < Instant(dates[m])
                          \/ (Instant(dates[k]) = Instant(dates[m]) /\ k <= m)
             rest == SubSeq(dates, 1, i - 1) \o SubSeq(dates, i + 1, Len(dates))
         IN  <<dates[i]>> \o SortDates(rest)

\* comparing a naive with an aware datetime raises TypeError: sorting a list
\* of two or more that holds both kinds raises
SortRaises(dates) ==
    \E i, j \in 1..Len(dates) : dates[i].aware # dates[j].aware

\* [(dates[i] - dates[i-1]).days for i in range(1, len(dates))]
IntervalsOf(dates) == [i \in 1..(Len(dates) - 1) |-> DaysBetween(dates[i], dates[i + 1])]

----------------------------------------------------------------------------
(* src/structured_ai_agent.py: the data set and the lifespan resolver *)

\* one record of self.data['spare_parts']
SparePart(part_id, equip_id, replace_date, note) ==
    [SPAREPARTID |-> part_id, ROLLINGSTOCKID |-> equip_id,
     REPLACEDATE |-> replace_date, NOTE |-> note]

\* one record of self.data['machines']
Machine(rollingstockId, name, producer) ==
    [rollingstockId |-> rollingstockId, name |-> name, producer |-> producer]

DEFAULT_PART_LIFESPANS ==
    (3 :> 12) @@ (4 :> 24) @@ (9 :> 6) @@ (5 :> 18) @@ (6 :> 12) @@ (7 :> 24) @@
    (8 :> 18) @@ (10 :> 12) @@ (11 :> 6) @@ (12 :> 24) @@ (13 :> 18) @@ (14 :> 12) @@
    (15 :> 24) @@ (16 :> 18) @@ (17 :> 12)

\* DEFAULT_PART_LIFESPANS.get(part_id, 12)
DefaultLifespan(part_id) ==
    IF part_id.typ = "int" /\ part_id.n \in DOMAIN DEFAULT_PART_LIFESPANS
    THEN DEFAULT_PART_LIFESPANS[part_id.n]
    ELSE 12

\* the smallest of a set of indices of a list, 0 when the set is empty:
\* next((x for x in seq if test(x)), None) over the indices that pass the test
FirstIndex(indices) ==
    IF indices = {} THEN 0
    ELSE CHOOSE i \in indices : \A j \in indices : i <= j

\* _get_part_info_from_data(part_id): [found, part_name, machine_name, manufacturer]
_get_part_info_from_data(part_id) ==
    LET p == FirstIndex({i \in 1..Len(spare_parts) :
                             spare_parts[i].SPAREPARTID = part_id})
    IN  IF p = 0
        THEN [found |-> FALSE, part_name |-> NullStr, machine_name |-> NullStr,
              manufacturer |-> NullStr]
        ELSE LET part == spare_parts[p]
                 m == FirstIndex({i \in 1..Len(machines) :
                                      machines[i].rollingstockId = part.ROLLINGSTOCKID})
             IN  [found |-> TRUE,
                  \* part.get('NOTE', f'Part {part_id}'): the default only when the key is missing
                  part_name |-> IF part.NOTE.kind = "absent"
                                THEN Str("Part " \o FormatId(part_id))
                                ELSE part.NOTE,
                  machine_name |-> IF m = 0 \/ machines[m].name.kind = "absent"
                                   THEN Str("Unknown Machine") ELSE machines[m].name,
                  manufacturer |-> IF m = 0 \/ machines[m].producer.kind = "absent"
                                   THEN Str("Unknown") ELSE machines[m].producer]

\* get_smart_part_lifespan(part_id): [raised, value, stages]; value is the int returned
get_smart_part_lifespan(part_id, ai) ==
    LET part_info == _get_part_info_from_data(part_id) IN
    IF ~part_info.found
    THEN [raised |-> FALSE, value |-> DefaultLifespan(part_id), stages |-> <<"default">>]
    ELSE LET looked == get_ai_lifespan(part_info.part_name, ai) IN
         IF looked.raised
         THEN [raised |-> TRUE, value |-> 0, stages |-> looked.stages]
         ELSE IF Truthy(looked.value)
         THEN [raised |-> FALSE, value |-> looked.value.v, stages |-> looked.stages]
         ELSE [raised |-> FALSE, value |-> DefaultLifespan(part_id),
               stages |-> Append(looked.stages, "default")]

----------------------------------------------------------------------------
(* src/structured_ai_agent.py: construction of the agent *)

\* The file json/real-data-db.json: kind tells whether open() fails ("missing"),
\* json.load fails ("invalid"), the document is an array ("array") or an object
\* ("object"); spareparts and machines are the values of the two keys of the
\* object that the predictor and the scanner read
JsonKey(kind, list) == [kind |-> kind, list |-> list]
DbFile(kind, spareparts, machines_) ==
    [kind |-> kind, spareparts |-> spareparts, machines |-> machines_]

\* db_data.get(key, []) followed by len(data[...]) in the log line of the try:
\* a key that is missing reads as [], a null value makes len() raise
_load_all_data(file) ==
    IF file.kind # "object"
    THEN \* open() or json.load raises, or db_data.get raises on a list: re-raised
         [raised |-> TRUE, spare_parts |-> <<>>, machines |-> <<>>]
    ELSE IF file.spareparts.kind = "null" \/ file.machines.kind = "null"
    THEN \* len(None) raises TypeError inside the try: re-raised
         [raised |-> TRUE, spare_parts |-> <<>>, machines |-> <<>>]
    ELSE [raised |-> FALSE,
          spare_parts |-> IF file.spareparts.kind = "absent" THEN <<>>
                          ELSE file.spareparts.list,
          machines |-> IF file.machines.kind = "absent" THEN <<>>
                       ELSE file.machines.list]

----------------------------------------------------------------------------
(* src/structured_ai_agent.py: the web search estimator and the AI-only estimator *)

\* What GoogleSearch(...).get_dict() does on one call: it raises, returns a dict
\* without organic results, or returns organic results.
SearchBehaviours == {"raises", "empty", "results"}

\* _search_part_lifespan_openai_only(part_name, machine_name, manufacturer); ai is
\* what the AI service does if it is called. The result is [value, searched, ai_calls]:
\* the Optional[int] returned, whether a web search was issued, the AI calls made.
_search_part_lifespan_openai_only(ai) ==
    IF use_openai
    THEN IF ai.raises
         THEN \* except Exception: return None
              [value |-> None, searched |-> FALSE, ai_calls |-> 1]
         ELSE LET result == strip(ai.content) IN
              [value |-> IF isdigit(result) THEN Some(int(result))
                         ELSE IF contains("UNKNOWN", upper(result)) THEN None
                         ELSE IF FirstDigitRun(result) # ""
                              THEN Some(int(FirstDigitRun(result)))
                         ELSE None,
               searched |-> FALSE, ai_calls |-> 1]
    ELSE [value |-> None, searched |-> FALSE, ai_calls |-> 0]

\* an estimator that searches the web whether or not a search credential is set
SearchOnlineWithoutKey(search, ai, ai_only) ==
    LET fallback == _search_part_lifespan_openai_only(ai_only)
        after(calls) == [fallback EXCEPT !.searched = TRUE,
                                         !.ai_calls = fallback.ai_calls + calls]
    IN  IF search \in {"raises", "empty"} THEN after(0)
        ELSE IF ~use_openai THEN [value |-> None, searched |-> TRUE, ai_calls |-> 0]
        ELSE IF ai.raises THEN after(1)
        ELSE [_search_part_lifespan_openai_only(ai) EXCEPT !.searched = TRUE]

\* an estimator that takes the first number of the answer before it looks for
\* the sentinel
SearchOnlineDigitsFirst(search, ai, ai_only) ==
    LET given == IF serpapi_key /\ search = "results" /\ ~ai.raises THEN ai ELSE ai_only
        result == strip(given.content)
    IN  [value |-> IF use_openai /\ ~given.raises /\ FirstDigitRun(result) # ""
                   THEN Some(int(FirstDigitRun(result))) ELSE None,
         searched |-> serpapi_key,
         ai_calls |-> IF use_openai THEN 1 ELSE 0]

\* _search_part_lifespan_online(part_name, machine_name, manufacturer); search is
\* what the search service does if it is queried, ai what the AI service does on
\* the call that analyses the search results, ai_only what it does on the call
\* of the AI-only estimator
_search_part_lifespan_online(search, ai, ai_only) ==
    LET fallback == _search_part_lifespan_openai_only(ai_only)
        \* the AI-only estimator is entered after the search, after calls AI calls
        after(calls) == [fallback EXCEPT !.searched = TRUE,
                                         !.ai_calls = fallback.ai_calls + calls]
    IN  IF ~serpapi_key
        THEN fallback
        ELSE IF search = "raises"
        THEN \* except Exception: return self._search_part_lifespan_openai_only(...)
             after(0)
        ELSE IF search = "empty"
        THEN \* if not search_results:
             after(0)
        ELSE IF use_openai
        THEN IF ai.raises
             THEN after(1)
             ELSE LET result == strip(ai.content) IN
                  [value |-> IF isdigit(result) THEN Some(int(result))
                             ELSE IF contains("UNKNOWN", upper(result)) THEN None
                             ELSE IF FirstDigitRun(result) # ""
                                  THEN Some(int(FirstDigitRun(result)))
                             ELSE None,
                   searched |-> TRUE, ai_calls |-> 1]
        ELSE [value |-> None, searched |-> TRUE, ai_calls |-> 0]

\* get_online_part_lifespan(part_id): Optional[int]
get_online_part_lifespan(part_id, search, ai, ai_only) ==
    IF ~_get_part_info_from_data(part_id).found
    THEN None
    ELSE _search_part_lifespan_online(search, ai, ai_only).value

----------------------------------------------------------------------------
(* src/manufacturer_api_integration.py: the hybrid lifespan lookup *)

\* What one HTTP API does for a request: key tells whether its API key is
\* configured, response whether requests.get raises ("raises"), answers with a
\* status other than 200 ("status") or with 200 ("ok"), found whether the
\* answer lists a part, and lifespan the interval field of the answer (None when
\* the field is missing or null)
Api(key, response, found, lifespan) ==
    [key |-> key, response |-> response, found |-> found, lifespan |-> lifespan]

\* Optional[Dict] with the key lifespan_months
NoInfo == [some |-> FALSE, lifespan_months |-> None]
Info(lifespan) == [some |-> TRUE, lifespan_months |-> lifespan]

\* get_caterpillar_part_info, get_cummins_part_info: the dict is built from
\* data.get(...) of any answer with status 200
get_caterpillar_part_info(api) ==
    IF ~api.key THEN NoInfo
    ELSE IF api.response = "ok" THEN Info(api.lifespan)
    ELSE NoInfo

get_cummins_part_info(api) ==
    IF ~api.key THEN NoInfo
    ELSE IF api.response = "ok" THEN Info(api.lifespan)
    ELSE NoInfo

\* get_partslink_info, get_tecnet_info: the dict is built from the first entry
\* of the results, when there is one
get_partslink_info(api) ==
    IF ~api.key THEN NoInfo
    ELSE IF api.response = "ok" /\ api.found THEN Info(api.lifespan)
    ELSE NoInfo

get_tecnet_info(api) ==
    IF ~api.key THEN NoInfo
    ELSE IF api.response = "ok" /\ api.found THEN Info(api.lifespan)
    ELSE NoInfo

\* TechnicalDatabaseIntegration._load_maintenance_standards()
_load_maintenance_standards ==
    [air_filters |-> [typical_lifespan_months |-> 6, range_months |-> <<3, 12>>,
                      factors |-> {"operating_conditions", "dust_levels", "humidity"}],
     oil_filters |-> [typical_lifespan_months |-> 6, range_months |-> <<3, 12>>,
                      factors |-> {"oil_quality", "operating_hours", "contamination"}],
     fuel_filters |-> [typical_lifespan_months |-> 12, range_months |-> <<6, 24>>,
                       factors |-> {"fuel_quality", "operating_conditions"}],
     belts |-> [typical_lifespan_months |-> 18, range_months |-> <<12, 36>>,
                factors |-> {"tension", "alignment", "operating_conditions"}],
     bearings |-> [typical_lifespan_months |-> 36, range_months |-> <<24, 60>>,
                   factors |-> {"load", "speed", "lubrication", "contamination"}],
     seals |-> [typical_lifespan_months |-> 24, range_months |-> <<12, 36>>,
                factors |-> {"pressure", "temperature", "chemical_exposure"}],
     sensors |-> [typical_lifespan_months |-> 36, range_months |-> <<24, 48>>,
                  factors |-> {"environment", "accuracy_requirements"}],
     motors |-> [typical_lifespan_months |-> 60, range_months |-> <<36, 84>>,
                 factors |-> {"load", "operating_hours", "maintenance"}]]

\* TechnicalDatabaseIntegration._load_part_categories(), in insertion order
_load_part_categories ==
    << <<"filtro aria", "air_filters">>, <<"air filter", "air_filters">>,
       <<"oil filter", "oil_filters">>, <<"fuel filter", "fuel_filters">>,
       <<"belt", "belts">>, <<"bearing", "bearings">>, <<"seal", "seals">>,
       <<"gasket", "seals">>, <<"sensor", "sensors">>, <<"motor", "motors">>,
       <<"pump", "motors">>, <<"compressor", "motors">> >>

\* categorize_part(part_name): the category of the first keyword found in the name
categorize_part(part_name) ==
    LET part_name_lower == lower(part_name)
        k == FirstIndex({i \in 1..Len(_load_part_categories) :
                            contains(_load_part_categories[i][1], part_name_lower)})
    IN  IF k = 0 THEN "unknown" ELSE _load_part_categories[k][2]

\* operating conditions: given is FALSE for a missing or empty dict
Conditions(given, dust_levels, operating_hours, temperature) ==
    [given |-> given, dust_levels |-> dust_levels,
     operating_hours |-> operating_hours, temperature |-> temperature]

\* _calculate_adjustment_factor(conditions, factors) as the fraction num / den
\* of the factors 0.7, 0.8 and 0.9
_calculate_adjustment_factor(conditions, factors) ==
    LET dust == "dust_levels" \in factors /\ conditions.dust_levels = "high"
        hours == "operating_hours" \in factors /\ conditions.operating_hours = "high"
        temp == "temperature" \in factors /\ conditions.temperature = "high"
    IN  [num |-> (IF dust THEN 7 ELSE 10) * (IF hours THEN 8 ELSE 10)
                     * (IF temp THEN 9 ELSE 10),
         den |-> 1000]

\* max(a, min(b, x))
Clamp(a, b, x) == IF x > b THEN (IF a > b THEN a ELSE b) ELSE IF x < a THEN a ELSE x

\* get_standard_lifespan(part_name, operating_conditions): Optional[int]
get_standard_lifespan(part_name, operating_conditions) ==
    LET category == categorize_part(part_name) IN
    IF category = "unknown" THEN None
    ELSE LET standard == _load_maintenance_standards[category]
             base_lifespan == standard.typical_lifespan_months
             adjustment_factor ==
                 _calculate_adjustment_factor(operating_conditions, standard.factors)
             \* int(base_lifespan * adjustment_factor)
             adjusted_lifespan ==
                 (base_lifespan * adjustment_factor.num) \div adjustment_factor.den
         IN  IF operating_conditions.given
             THEN Some(Clamp(standard.range_months[1], standard.range_months[2],
                             adjusted_lifespan))
             ELSE Some(base_lifespan)

\* _try_manufacturer_api(part_number, manufacturer); apis is what the four APIs do
_try_manufacturer_api(manufacturer, apis) ==
    LET manufacturer_lower == lower(manufacturer) IN
    IF contains("caterpillar", manufacturer_lower) \/ contains("cat", manufacturer_lower)
    THEN get_caterpillar_part_info(apis.caterpillar)
    ELSE IF contains("cummins", manufacturer_lower)
    THEN get_cummins_part_info(apis.cummins)
    ELSE NoInfo

\* _try_technical_database(part_name, machine_type)
_try_technical_database(apis) ==
    IF get_partslink_info(apis.partslink).some
    THEN get_partslink_info(apis.partslink)
    ELSE IF get_tecnet_info(apis.tecnet).some
    THEN get_tecnet_info(apis.tecnet)
    ELSE NoInfo

\* the arguments of the lookup: part_info.get(key, "") of the four strings and
\* part_info.get("operating_conditions", {})
PartInfo(part_name, part_number, machine_type, manufacturer, operating_conditions) ==
    [part_name |-> part_name, part_number |-> part_number,
     machine_type |-> machine_type, manufacturer |-> manufacturer,
     operating_conditions |-> operating_conditions]

\* the tail of get_part_lifespan: priority 3, the industry standards
StandardOrNone(part_info) ==
    LET standard_result ==
            get_standard_lifespan(part_info.part_name, part_info.operating_conditions)
    IN  IF Truthy(standard_result) THEN standard_result ELSE None

\* the middle of get_part_lifespan: priority 2, the technical databases
DatabaseOrLater(part_info, apis) ==
    IF part_info.part_name # "" /\ part_info.machine_type # ""
           /\ _try_technical_database(apis).some
    THEN _try_technical_database(apis).lifespan_months
    ELSE StandardOrNone(part_info)

\* HybridLifespanLookup.get_part_lifespan(part_info): Optional[int]
get_part_lifespan(part_info, apis) ==
    IF part_info.part_number # "" /\ part_info.manufacturer # ""
           /\ _try_manufacturer_api(part_info.manufacturer, apis).some
    THEN \* return manufacturer_result['lifespan_months']
         _try_manufacturer_api(part_info.manufacturer, apis).lifespan_months
    ELSE DatabaseOrLater(part_info, apis)

----------------------------------------------------------------------------
(* src/structured_ai_agent.py: the interval estimator and the predictor *)

\* a record filter that skips a record only when its part identifier is None
KeepsRecordNullEquipment(part) ==
    /\ part.SPAREPARTID.typ # "none"
    /\ ParsesToDate(part.REPLACEDATE)

\* both loops over self.data['spare_parts'] keep a record when neither identifier
\* is None and its date parses
KeepsRecord(part) ==
    /\ ~(part.SPAREPARTID.typ = "none" \/ part.ROLLINGSTOCKID.typ = "none")
    /\ ParsesToDate(part.REPLACEDATE)

\* the datetimes appended for (equip_id, part_id), in record order:
\* replacements[(equip_id, part_id)], and equip_replacements[equip_id] within part_id
RECURSIVE DatesUpTo(_, _, _)
DatesUpTo(n, equip_id, part_id) ==
    IF n = 0 THEN <<>>
    ELSE LET part == spare_parts[n]
             before == DatesUpTo(n - 1, equip_id, part_id)
         IN  IF KeepsRecord(part) /\ part.ROLLINGSTOCKID = equip_id /\ part.SPAREPARTID = part_id
             THEN Append(before, part.REPLACEDATE.dt)
             ELSE before

DatesOf(equip_id, part_id) == DatesUpTo(Len(spare_parts), equip_id, part_id)

\* the keys of `replacements` in insertion order
RECURSIVE PairKeysUpTo(_)
PairKeysUpTo(n) ==
    IF n = 0 THEN <<>>
    ELSE LET part == spare_parts[n]
             before == PairKeysUpTo(n - 1)
             key == <<part.ROLLINGSTOCKID, part.SPAREPARTID>>
         IN  IF KeepsRecord(part) /\ key \notin Range(before)
             THEN Append(before, key)
             ELSE before

\* a grouping that opens a key for every kept record
RECURSIVE KeysPerRecordUpTo(_)
KeysPerRecordUpTo(n) ==
    IF n = 0 THEN <<>>
    ELSE LET part == spare_parts[n]
             before == KeysPerRecordUpTo(n - 1)
         IN  IF KeepsRecord(part)
             THEN Append(before, <<part.ROLLINGSTOCKID, part.SPAREPARTID>>)
             ELSE before

PairKeysPerRecord == KeysPerRecordUpTo(Len(spare_parts))

PairKeys == PairKeysUpTo(Len(spare_parts))

\* a pool that takes the intervals of the first equipment with >= 2 dates only
RECURSIVE AllIntervalsFirstEquipment(_, _)
AllIntervalsFirstEquipment(keys, part_id) ==
    IF keys = <<>> THEN <<>>
    ELSE LET key == Head(keys)
             dates == DatesOf(key[1], part_id)
         IN  IF key[2] = part_id /\ Len(dates) >= 2
             THEN IntervalsOf(SortDates(dates))
             ELSE AllIntervalsFirstEquipment(Tail(keys), part_id)

\* all_intervals of one part_id: the intervals of every equipment with >= 2 dates
RECURSIVE AllIntervals(_, _)
AllIntervals(keys, part_id) ==
    IF keys = <<>> THEN <<>>
    ELSE LET key == Head(keys)
             dates == DatesOf(key[1], part_id)
         IN  (IF key[2] = part_id /\ Len(dates) >= 2
              THEN IntervalsOf(SortDates(dates))
              ELSE <<>>) \o AllIntervals(Tail(keys), part_id)

\* _calculate_part_lifespans_from_data raises when an equipment's list of >= 2
\* dates cannot be sorted
CalculateRaises ==
    LET keys == PairKeys IN
    \E i \in 1..Len(keys) :
        LET dates == DatesOf(keys[i][1], keys[i][2])
        IN  Len(dates) >= 2 /\ SortRaises(dates)

\* a part-type table that pools the intervals of every part_id
PartLifespansAllParts(part_id) ==
    LET pooled == [i \in 1..Len(PairKeys) |->
                      LET dates == DatesOf(PairKeys[i][1], PairKeys[i][2])
                      IN  IF Len(dates) >= 2 THEN SumSeq(IntervalsOf(SortDates(dates))) ELSE 0]
        counts == [i \in 1..Len(PairKeys) |->
                      LET dates == DatesOf(PairKeys[i][1], PairKeys[i][2])
                      IN  IF Len(dates) >= 2 THEN Len(dates) - 1 ELSE 0]
    IN  IF SumSeq(counts) > 0
        THEN [has |-> TRUE, num |-> SumSeq(pooled), den |-> SumSeq(counts)]
        ELSE [has |-> FALSE, num |-> 0, den |-> 1]

\* _calculate_part_lifespans_from_data()[part_id]: has tells whether the key is in
\* the dict, num / den is avg_interval = sum(all_intervals) / len(all_intervals)
part_lifespans(part_id) ==
    LET all_intervals == AllIntervals(PairKeys, part_id) IN
    IF all_intervals # <<>>
    THEN [has |-> TRUE, num |-> SumSeq(all_intervals), den |-> Len(all_intervals)]
    ELSE [has |-> FALSE, num |-> 0, den |-> 1]

\* the part identifiers that _calculate_part_lifespans_from_data groups: those of
\* the records that have an equipment identifier too
GroupedPartIds ==
    {spare_parts[i].SPAREPARTID : i \in {j \in 1..Len(spare_parts) :
        /\ spare_parts[j].SPAREPARTID.typ # "none"
        /\ spare_parts[j].ROLLINGSTOCKID.typ # "none"}}

\* _calculate_part_lifespans_from_data(): [raised, part_lifespans]; a part_id
\* that is not a key of the returned dict has part_lifespans[part_id].has = FALSE
_calculate_part_lifespans_from_data ==
    IF CalculateRaises
    THEN [raised |-> TRUE, part_lifespans |-> <<>>]
    ELSE [raised |-> FALSE,
          part_lifespans |-> [part_id \in GroupedPartIds |-> part_lifespans(part_id)]]

DefaultIntervalDays == 365

\* an average that divides by the number of dates instead of the number of intervals
AvgIntervalOverDates(dates, part_id) ==
    IF Len(dates) >= 2
    THEN [num |-> SumSeq(IntervalsOf(dates)), den |-> Len(dates)]
    ELSE IF part_lifespans(part_id).has
    THEN [num |-> part_lifespans(part_id).num, den |-> part_lifespans(part_id).den]
    ELSE [num |-> DefaultIntervalDays, den |-> 1]

\* avg_interval of a pair with the sorted list dates, as the fraction num / den of
\* days: sum(intervals) / len(intervals), or part_lifespans.get(part_id, 365)
avg_interval(dates, part_id) ==
    IF Len(dates) >= 2
    THEN [num |-> SumSeq(IntervalsOf(dates)), den |-> Len(IntervalsOf(dates))]
    ELSE IF part_lifespans(part_id).has
    THEN [num |-> part_lifespans(part_id).num, den |-> part_lifespans(part_id).den]
    ELSE [num |-> DefaultIntervalDays, den |-> 1]

prediction_method(dates) ==
    IF Len(dates) >= 2 THEN "equipment_specific_history" ELSE "part_type_average"

\* a predicted instant that adds the interval twice
PredictedNextTwice(last_replacement, avg) ==
    last_replacement * avg.den + 2 * avg.num * TicksPerDay

\* predicted_next = last_replacement + timedelta(days=avg_interval), in units of
\* 1/avg.den tick
predicted_next(last_replacement, avg) ==
    last_replacement * avg.den + avg.num * TicksPerDay

\* predicted_next.strftime("%Y-%m-%d") for an instant in units of 1/avg.den tick
PredictedDateString(instant, avg) == instant \div (avg.den * TicksPerDay)

\* a due flag that is set only once the predicted instant is past
DueStrictlyAfter(now_, instant, avg) == now_ * avg.den > instant

\* due = now >= predicted_next
due(now_, instant, avg) == now_ * avg.den >= instant

\* a snapshot taken from the first machine of the list, whatever its identifier
MachineDataFirstInList(equip_id) ==
    IF machines = <<>> THEN [found |-> FALSE, machine_name |-> NullStr]
    ELSE [found |-> TRUE, machine_name |-> machines[1].name]

\* machine_data: the snapshot of the first machine with rollingstockId == equip_id,
\* {} (found = FALSE) when there is none
machine_data(equip_id) ==
    LET m == FirstIndex({i \in 1..Len(machines) : machines[i].rollingstockId = equip_id})
    IN  IF m = 0 THEN [found |-> FALSE, machine_name |-> NullStr]
        ELSE [found |-> TRUE, machine_name |-> machines[m].name]

\* part_data: the snapshot of the first record with SPAREPARTID == part_id,
\* {} (found = FALSE) when there is none
part_data(part_id) ==
    LET p == FirstIndex({i \in 1..Len(spare_parts) : spare_parts[i].SPAREPARTID = part_id})
    IN  IF p = 0 THEN [found |-> FALSE, part_name |-> NullStr]
        ELSE [found |-> TRUE, part_name |-> spare_parts[p].NOTE]

\* the dict built for one (equip_id, part_id) of `replacements`; now_ is
\* datetime.now() and lifespan_months the resolver's value for part_id
Prediction(equip_id, part_id, now_, lifespan_months) ==
    LET dates == SortDates(DatesOf(equip_id, part_id))
        \* dates[-1], its tzinfo replaced by None: the wall-clock time is kept
        last_replacement == dates[Len(dates)].t
        avg == avg_interval(dates, part_id)
        next == predicted_next(last_replacement, avg)
    IN  [equipment_id |-> equip_id,
         part_id |-> part_id,
         last_replacement |-> DateString(last_replacement),
         predicted_next_replacement |-> PredictedDateString(next, avg),
         average_interval_days |-> avg,
         prediction_method |-> prediction_method(dates),
         due |-> due(now_, next, avg),
         lifespan_months |-> lifespan_months,
         machine |-> machine_data(equip_id),
         part |-> part_data(part_id)]

\* predict_part_replacements() at clock now_; ai[i] is what the AI service does
\* on the call made for the i-th pair. The result is [raised, predictions].
predict_part_replacements(now_, ai) ==
    LET keys == PairKeys
        smart == [i \in 1..Len(keys) |-> get_smart_part_lifespan(keys[i][2], ai[i])]
    IN  IF CalculateRaises \/ \E i \in 1..Len(keys) : smart[i].raised
        THEN [raised |-> TRUE, predictions |-> <<>>]
        ELSE [raised |-> FALSE,
              predictions |-> [i \in 1..Len(keys) |->
                  Prediction(keys[i][1], keys[i][2], now_, smart[i].value)]]

\* timedelta(days=lifespan_months*30)
DaysPerMonth == 30

\* one pass of the loop of get_due_part_checks, over record i at clock now_;
\* smart is the outcome of get_smart_part_lifespan(part_id) and online the
\* result of get_online_part_lifespan(part_id) for the record
DueCheckGiven(i, now_, smart, online) ==
    LET part == spare_parts[i]
        part_id == part.SPAREPARTID
        equip_id == part.ROLLINGSTOCKID
        replace_date == part.REPLACEDATE
        lifespan_months == smart.value
        \* `replace_date and replace_date != "NULL" and lifespan_months`, and the
        \* parse in the try succeeds; otherwise expected_next_check = "N/A"
        dated == ParsesToDate(replace_date) /\ lifespan_months # 0
        \* dt.replace(tzinfo=None) keeps the wall-clock time
        next_check == replace_date.dt.t + lifespan_months * DaysPerMonth * TicksPerDay
        expected_next_check == DateString(next_check)
        lifespan_source == IF Truthy(online) THEN "online" ELSE "default"
    IN  IF ~(part_id.typ = "int" /\ equip_id.typ = "int")
        THEN \* continue
             [raised |-> FALSE, appended |-> FALSE, check |-> <<>>]
        ELSE IF smart.raised
        THEN [raised |-> TRUE, appended |-> FALSE, check |-> <<>>]
        ELSE [raised |-> FALSE,
              \* now >= dateutil.parser.parse(expected_next_check): midnight of that day
              appended |-> dated /\ now_ >= expected_next_check * TicksPerDay,
              check |-> [equipment_id |-> equip_id,
                         part_id |-> part_id,
                         last_replacement |-> replace_date,
                         expected_next_check |-> expected_next_check,
                         lifespan_months |-> lifespan_months,
                         lifespan_source |-> lifespan_source,
                         \* the position of the record in spare_parts (bookkeeping)
                         record |-> i]]

\* the pass over record i; services is what the AI and search services do on
\* the calls made for the record: [smart, search, ai, ai_only]
DueCheck(i, now_, services) ==
    DueCheckGiven(i, now_,
                  get_smart_part_lifespan(spare_parts[i].SPAREPARTID, services.smart),
                  get_online_part_lifespan(spare_parts[i].SPAREPARTID, services.search,
                                           services.ai, services.ai_only))

\* get_due_part_checks() at clock now_; services[i] is what the services do on
\* the calls made for the i-th record. The result is [raised, due_checks].
get_due_part_checks(now_, services) ==
    LET passes == [i \in 1..Len(spare_parts) |-> DueCheck(i, now_, services[i])]
        Appended(pass) == pass.appended
        CheckOf(kept) == [k \in 1..Len(kept) |-> kept[k].check]
    IN  IF \E i \in 1..Len(passes) : passes[i].raised
        THEN [raised |-> TRUE, due_checks |-> <<>>]
        ELSE [raised |-> FALSE, due_checks |-> CheckOf(SelectSeq(passes, Appended))]

----------------------------------------------------------------------------
(* Bounds and input sets *)

MaxParts == 2      \* records in the data set of Spec
MaxRecords == 3    \* records in the data set of SpecIntervals
MaxTick == 3       \* replacement instants range over 0..MaxTick
MaxEvents == 3     \* events of one equipment in the data sets of SpecPool

BoundedSeq(S, n) == UNION {[1..k -> S] : k \in 0..n}

\* what the AI service may do on one call
AIBehaviours ==
    {AIRaises} \cup {AIAnswers(c) : c \in {"12", "0", "UNKNOWN"}}

\* one behaviour per call; without a credential no call is made
AIChoices(n) == IF use_openai THEN [1..n -> AIBehaviours] ELSE {[i \in 1..n |-> AIRaises]}

\* evaluation clocks: inside the range of the replacement instants, and one tick
\* past the default interval
NowValues == {MaxTick - 1, DefaultIntervalDays * TicksPerDay + 1}

\* part ids asked of the resolver: in the default table, outside it, a string
ProbeIds == {IntId(4), IntId(99), StrId("P7")}

NoCall == [op |-> "none"]

\* data sets of Spec: names that classify, a null name, a missing name
LifespanRecords ==
    {SparePart(IntId(p), IntId(1), d, n) :
        p \in {4, 99},
        d \in {DateText(Naive(0))},
        n \in {Str("Fuel filter"), NullStr, Absent}}

MachineSets == {<<>>, <<Machine(IntId(1), Str("Grundfos CR Pump Unit"), Str("Grundfos"))>>}

\* the events of one pair on 2022-01-01, 2022-07-01 and 2023-01-01, as days since
\* 2022-01-01
ScenarioDays == <<0, 181, 365>>
ScenarioEvents ==
    [i \in 1..3 |-> SparePart(IntId(3), IntId(1),
                               DateText(Naive(ScenarioDays[i] * TicksPerDay)),
                               Str("Oil Filter"))]

\* the same events, the last one at noon of 2023-01-01
ScenarioEventsAtNoon ==
    [ScenarioEvents EXCEPT ![3].REPLACEDATE =
        DateText(Naive(ScenarioDays[3] * TicksPerDay + TicksPerDay \div 2))]

\* data sets of SpecIntervals: three pairs, two of them sharing a part_id
IntervalRecords ==
    {SparePart(IntId(k[2]), IntId(k[1]), DateText(Naive(t)), Str("Oil Filter")) :
        k \in {<<1, 3>>, <<2, 3>>, <<1, 5>>}, t \in 0..MaxTick}
    \cup {SparePart(IntId(3), IntId(1), NoDate("NULL"), Str("Oil Filter"))}

\* data sets of SpecRecords: a pair with numeric and a pair with string
\* identifiers, records without an equipment or a part identifier, and dates
\* that are valid, null, empty, the "NULL" sentinel or unparseable
MalformedRecords ==
    {SparePart(IntId(3), IntId(1), d, Str("Oil Filter")) :
        d \in {DateText(Naive(0)), DateText(Naive(MaxTick)), NoDate("NULL"),
               NoDate("garbage"), NoDate("null")}}
    \cup {SparePart(StrId("P7"), StrId("E1"), d, Str("Oil Filter")) :
        d \in {DateText(Naive(0)), NoDate("NULL")}}
    \cup {SparePart(IntId(3), IntId(2), d, Str("Oil Filter")) :
        d \in {DateText(Naive(0)), NoDate("empty")}}
    \cup {SparePart(StrId("P7"), NoneId, DateText(Naive(t)), Str("Oil Filter")) :
        t \in {0, MaxTick}}
    \cup {SparePart(NoneId, IntId(1), DateText(Naive(MaxTick)), Str("Oil Filter"))}

\* data sets of SpecDue: records of one part, with and without a time of day and
\* 200 days later, with string identifiers, with the "NULL" sentinel for a date,
\* with a null name
DueRecords ==
    {SparePart(IntId(4), IntId(1), DateText(Naive(t)), Str("Fuel filter")) :
        t \in {0, 1, 200 * TicksPerDay}}
    \cup {SparePart(StrId("P7"), StrId("E1"), DateText(Naive(0)), Str("Fuel filter")),
          SparePart(IntId(4), IntId(1), NoDate("NULL"), Str("Fuel filter")),
          SparePart(IntId(4), IntId(1), DateText(Naive(0)), NullStr)}

\* what the services do on the calls made for one record: the AI call of the
\* resolver, the web search, the AI call on its results, the AI-only call
Services(smart, search, ai, ai_only) ==
    [smart |-> smart, search |-> search, ai |-> ai, ai_only |-> ai_only]

\* without an AI credential no AI call is made
ServiceBehaviours ==
    IF use_openai
    THEN {Services(AIRaises, "results", AIAnswers("24"), AIRaises),
          Services(AIAnswers("12"), "empty", AIRaises, AIAnswers("UNKNOWN")),
          Services(AIAnswers("6"), "raises", AIRaises, AIAnswers("24")),
          Services(AIAnswers("UNKNOWN"), "results", AIAnswers("0"), AIAnswers("0"))}
    ELSE {Services(AIRaises, "results", AIRaises, AIRaises)}

\* evaluation clocks: one tick before the 180th day, its midnight, 2023-08-01
\* for a replacement on 2023-01-01, and the 360th day
DueNowValues ==
    {6 * DaysPerMonth * TicksPerDay - 1, 6 * DaysPerMonth * TicksPerDay,
     212 * TicksPerDay, 12 * DaysPerMonth * TicksPerDay}

----------------------------------------------------------------------------
(* Operations *)

PredictPartReplacements ==
    /\ \E now_ \in NowValues, ai \in AIChoices(Len(PairKeys)) :
           LET run == predict_part_replacements(now_, ai) IN
           ret' = [op |-> "predict_part_replacements", now |-> now_,
                   raised |-> run.raised, predictions |-> run.predictions]
    /\ UNCHANGED <<spare_parts, machines, use_openai, serpapi_key>>

GetSmartPartLifespan ==
    /\ \E part_id \in ProbeIds, ai \in AIChoices(1) :
           LET run == get_smart_part_lifespan(part_id, ai[1]) IN
           ret' = [op |-> "get_smart_part_lifespan", part_id |-> part_id, ai |-> ai[1],
                   raised |-> run.raised, value |-> run.value, stages |-> run.stages]
    /\ UNCHANGED <<spare_parts, machines, use_openai, serpapi_key>>

Init ==
    /\ spare_parts \in BoundedSeq(LifespanRecords, MaxParts)
    /\ machines \in MachineSets
    /\ use_openai \in BOOLEAN
    /\ serpapi_key \in BOOLEAN
    /\ ret = NoCall

Next == PredictPartReplacements \/ GetSmartPartLifespan

Spec == Init /\ [][Next]_vars

InitIntervals ==
    /\ spare_parts \in BoundedSeq(IntervalRecords, MaxRecords)
                          \cup {ScenarioEvents, ScenarioEventsAtNoon}
    /\ machines = <<>>
    /\ use_openai = FALSE
    /\ serpapi_key = FALSE
    /\ ret = NoCall

NextIntervals == PredictPartReplacements

SpecIntervals == InitIntervals /\ [][NextIntervals]_vars

InitRecords ==
    /\ spare_parts \in BoundedSeq(MalformedRecords, MaxRecords)
    /\ machines = <<>>
    /\ use_openai = FALSE
    /\ serpapi_key = FALSE
    /\ ret = NoCall

NextRecords == PredictPartReplacements

SpecRecords == InitRecords /\ [][NextRecords]_vars

(* The part-type table over the events of several equipment *)

\* replacement instants of the data sets of SpecPool: two midnights and a
\* time of day three days later
PoolTicks == {0, TicksPerDay, 3 * TicksPerDay + 1}

\* the events of part_id on equip_id at the instants of ticks, in that order
EventsAt(equip_id, part_id, ticks) ==
    [i \in 1..Len(ticks) |->
        SparePart(IntId(part_id), IntId(equip_id), DateText(Naive(ticks[i])),
                  Str("Oil Filter"))]

\* data sets of SpecPool: up to MaxEvents events of part 3 on equipment 1, fewer
\* on equipment 2, at most one on equipment 3, and one event of part 5
PoolDataSets ==
    {EventsAt(1, 3, a) \o EventsAt(2, 3, b) \o EventsAt(3, 3, c) \o EventsAt(1, 5, <<0>>) :
        a \in BoundedSeq(PoolTicks, MaxEvents),
        b \in BoundedSeq(PoolTicks, MaxEvents - 1),
        c \in BoundedSeq({TicksPerDay}, 1)}

CalculatePartLifespansFromData ==
    /\ LET run == _calculate_part_lifespans_from_data IN
       ret' = [op |-> "_calculate_part_lifespans_from_data",
               raised |-> run.raised, part_lifespans |-> run.part_lifespans]
    /\ UNCHANGED <<spare_parts, machines, use_openai, serpapi_key>>

InitPool ==
    /\ spare_parts \in PoolDataSets
    /\ machines = <<>>
    /\ use_openai = FALSE
    /\ serpapi_key = FALSE
    /\ ret = NoCall

NextPool == CalculatePartLifespansFromData \/ PredictPartReplacements

SpecPool == InitPool /\ [][NextPool]_vars

(* The due-check scanner; ret.services is what the services will do on the calls
   of a scan, record by record *)

GetDuePartChecks ==
    /\ ret.op \in {"services", "get_due_part_checks"}
    /\ \E now_ \in DueNowValues :
           LET run == get_due_part_checks(now_, ret.services) IN
           ret' = [op |-> "get_due_part_checks", services |-> ret.services,
                   now |-> now_, raised |-> run.raised, due_checks |-> run.due_checks]
    /\ UNCHANGED <<spare_parts, machines, use_openai, serpapi_key>>

InitDue ==
    /\ spare_parts \in BoundedSeq(DueRecords, MaxParts)
    /\ machines = <<>>
    /\ use_openai \in BOOLEAN
    /\ serpapi_key \in BOOLEAN
    /\ ret \in {[op |-> "services", services |-> s] :
                   s \in [1..Len(spare_parts) -> ServiceBehaviours]}

NextDue == GetDuePartChecks

SpecDue == InitDue /\ [][NextDue]_vars

(* Construction of the agent from the data file, and runs of the constructed
   agent; ret.file is the file the agent is constructed from *)

\* machine lists of the data files: none, the machine of equipment 1, a machine
\* of another equipment, and both
MachineLists ==
    {<<>>,
     <<Machine(IntId(1), Str("Grundfos CR Pump Unit"), Str("Grundfos"))>>,
     <<Machine(IntId(2), Str("Atlas Copco Compressor"), Str("Atlas Copco"))>>,
     <<Machine(IntId(2), Str("Atlas Copco Compressor"), Str("Atlas Copco")),
       Machine(IntId(1), Str("Grundfos CR Pump Unit"), Str("Grundfos"))>>}

JsonKeys(lists) ==
    {JsonKey("absent", <<>>), JsonKey("null", <<>>)} \cup {JsonKey("list", l) : l \in lists}

DbFiles ==
    {DbFile(k, JsonKey("absent", <<>>), JsonKey("absent", <<>>)) :
        k \in {"missing", "invalid", "array"}}
    \cup {DbFile("object", s, m) :
            s \in JsonKeys(BoundedSeq(LifespanRecords, MaxParts)),
            m \in JsonKeys(MachineLists)}

\* StructuredSparePartsAgent(): self.data is set only when _load_all_data returns
Construct ==
    /\ ret.op = "file"
    /\ LET loaded == _load_all_data(ret.file) IN
       IF loaded.raised
       THEN /\ ret' = [op |-> "__init__", file |-> ret.file, raised |-> TRUE]
            /\ UNCHANGED <<spare_parts, machines>>
       ELSE /\ ret' = [op |-> "__init__", file |-> ret.file, raised |-> FALSE]
            /\ spare_parts' = loaded.spare_parts
            /\ machines' = loaded.machines
    /\ UNCHANGED <<use_openai, serpapi_key>>

\* an agent object exists: the constructor returned
Constructed == ret.op # "file" /\ ~(ret.op = "__init__" /\ ret.raised)

\* a run of the predictor that takes the events it has processed off the list
PredictDrainingData ==
    /\ Constructed
    /\ \E now_ \in NowValues, ai \in AIChoices(Len(PairKeys)) :
           LET run == predict_part_replacements(now_, ai) IN
           ret' = [op |-> "predict_part_replacements", file |-> ret.file, now |-> now_,
                   raised |-> run.raised, predictions |-> run.predictions]
    /\ spare_parts' = <<>>
    /\ UNCHANGED <<machines, use_openai, serpapi_key>>

PredictOverLoadedData ==
    /\ Constructed
    /\ \E now_ \in NowValues, ai \in AIChoices(Len(PairKeys)) :
           LET run == predict_part_replacements(now_, ai) IN
           ret' = [op |-> "predict_part_replacements", file |-> ret.file, now |-> now_,
                   raised |-> run.raised, predictions |-> run.predictions]
    /\ UNCHANGED <<spare_parts, machines, use_openai, serpapi_key>>

DueChecksOverLoadedData ==
    /\ Constructed
    /\ \E now_ \in DueNowValues :
           LET services == [i \in 1..Len(spare_parts) |->
                               Services(AIRaises, "results", AIRaises, AIRaises)]
               run == get_due_part_checks(now_, services)
           IN  ret' = [op |-> "get_due_part_checks", file |-> ret.file, now |-> now_,
                       raised |-> run.raised, due_checks |-> run.due_checks]
    /\ UNCHANGED <<spare_parts, machines, use_openai, serpapi_key>>

\* before construction there is no agent and no self.data
InitLoad ==
    /\ spare_parts = <<>>
    /\ machines = <<>>
    /\ use_openai = FALSE
    /\ serpapi_key = FALSE
    /\ ret \in {[op |-> "file", file |-> f] : f \in DbFiles}

NextLoad == Construct \/ PredictOverLoadedData \/ DueChecksOverLoadedData

SpecLoad == InitLoad /\ [][NextLoad]_vars

(* The predictor over timestamps with and without a UTC offset *)

\* data sets of SpecZones: events of one pair without an offset and with the
\* offsets +1 and -1 tick, and an event of a second equipment with an offset
ZoneRecords ==
    {SparePart(IntId(3), IntId(1), DateText(d), Str("Oil Filter")) :
        d \in {Naive(0), Naive(MaxTick), Aware(1, 1), Aware(MaxTick, -1)}}
    \cup {SparePart(IntId(3), IntId(2), DateText(Aware(0, 1)), Str("Oil Filter"))}

InitZones ==
    /\ spare_parts \in BoundedSeq(ZoneRecords, MaxRecords)
    /\ machines = <<>>
    /\ use_openai = FALSE
    /\ serpapi_key = FALSE
    /\ ret = NoCall

NextZones == PredictPartReplacements

SpecZones == InitZones /\ [][NextZones]_vars

(* The predictor over one part installed on two equipment *)

\* data sets of SpecJoin: part 4 on equipment 1 and on equipment 2, under two names
JoinRecords ==
    {SparePart(IntId(4), IntId(e), DateText(Naive(0)), Str(n)) :
        e \in {1, 2}, n \in {"Fuel filter", "Oil seal"}}

InitJoin ==
    /\ spare_parts \in BoundedSeq(JoinRecords, MaxParts)
    /\ machines \in MachineLists
    /\ use_openai \in BOOLEAN
    /\ serpapi_key = FALSE
    /\ ret = NoCall

NextJoin == PredictPartReplacements

SpecJoin == InitJoin /\ [][NextJoin]_vars

(* The hybrid lookup applied to one part; ret.part_info and ret.apis are the
   argument of the call and what the four APIs do *)

NoConditions == Conditions(FALSE, "normal", "normal", "normal")

PartInfos ==
    {PartInfo(n, pn, mt, mf, oc) :
        n \in {"", "Oil Filter", "Widget"},
        pn \in {"", "CAT-123456"},
        mt \in {"", "excavator"},
        mf \in {"", "Caterpillar", "Cummins", "Volvo"},
        oc \in {NoConditions, Conditions(TRUE, "high", "high", "normal")}}

\* what one manufacturer API does
ManufacturerApis ==
    {Api(FALSE, "ok", TRUE, Some(24)), Api(TRUE, "raises", TRUE, None),
     Api(TRUE, "status", TRUE, None), Api(TRUE, "ok", TRUE, None),
     Api(TRUE, "ok", TRUE, Some(24))}

\* what one technical database does
DatabaseApis ==
    {Api(FALSE, "ok", TRUE, Some(18)), Api(TRUE, "ok", FALSE, None),
     Api(TRUE, "ok", TRUE, None), Api(TRUE, "ok", TRUE, Some(18))}

\* both manufacturer APIs behave alike in a scenario
ApiScenarios ==
    {[caterpillar |-> m, cummins |-> m, partslink |-> p, tecnet |-> t] :
        m \in ManufacturerApis, p \in DatabaseApis, t \in DatabaseApis}

GetPartLifespan ==
    /\ ret.op \in {"part_info", "get_part_lifespan"}
    /\ ret' = [op |-> "get_part_lifespan", part_info |-> ret.part_info,
               apis |-> ret.apis,
               value |-> get_part_lifespan(ret.part_info, ret.apis)]
    /\ UNCHANGED <<spare_parts, machines, use_openai, serpapi_key>>

InitHybrid ==
    /\ spare_parts = <<>>
    /\ machines = <<>>
    /\ use_openai = FALSE
    /\ serpapi_key = FALSE
    /\ ret \in {[op |-> "part_info", part_info |-> i, apis |-> a] :
                   i \in PartInfos, a \in ApiScenarios}

NextHybrid == GetPartLifespan

SpecHybrid == InitHybrid /\ [][NextHybrid]_vars

(* The name classifiers of the lookup applied to one part name *)

Words ==
    {"filter", "filtro", "element", "air", "oil", "fuel", "hydraulic", "cabin", "engine",
     "bearing", "cuscinetto", "ball", "roller", "thrust", "pillow", "block",
     "belt", "cintura", "v-belt", "serpentine", "timing", "drive", "fan",
     "sensor", "sensore", "temperature", "pressure", "proximity", "level", "flow",
     "motor", "motore", "pump", "pompa", "electric", "gear",
     "seal", "gasket", "guarnizione", "o-ring", "shaft",
     "switch", "relay", "contactor", "fuse", "circuit", "breaker", "transformer",
     "capacitor", "electrical", "cylinder", "valve", "hose", "fitting", "accumulator",
     "Fuel", "Filter", "HYDRAULIC", "Wheel", "Kit", "Diffuser"}

\* part names: one word, or two words with a blank between
Names == Words \cup {a \o " " \o b : a, b \in Words}

CategorizePart ==
    /\ ret.op \in {"name", "_categorize_part", "_get_fallback_lifespan"}
    /\ ret' = [op |-> "_categorize_part", part_name |-> ret.part_name,
               value |-> _categorize_part(ret.part_name)]
    /\ UNCHANGED <<spare_parts, machines, use_openai, serpapi_key>>

GetFallbackLifespan ==
    /\ ret.op \in {"name", "_categorize_part", "_get_fallback_lifespan"}
    /\ ret' = [op |-> "_get_fallback_lifespan", part_name |-> ret.part_name,
               value |-> _get_fallback_lifespan(ret.part_name)]
    /\ UNCHANGED <<spare_parts, machines, use_openai, serpapi_key>>

\* a lookup object and a part name about to be classified
InitNames ==
    /\ spare_parts = <<>>
    /\ machines = <<>>
    /\ use_openai = FALSE
    /\ serpapi_key = FALSE
    /\ ret \in {[op |-> "name", part_name |-> n] : n \in Names}

NextNames == CategorizePart \/ GetFallbackLifespan

SpecNames == InitNames /\ [][NextNames]_vars

(* The estimators applied to one answer of the AI service *)

\* answers of the AI service: a number or none, with text before and after it
Answers ==
    {a \o n \o b : a \in {"", "~", " ", "about "},
                   n \in {"12", "0", "7", "24", "007", ""},
                   b \in {"", " months", " to 18", " "}}
    \cup {"UNKNOWN", "Unknown", "unknown, maybe 12", "12 or unknown", "n/a"}

\* the AI service raises or gives the answer under study
AnswerBehaviours == {AIRaises, AIAnswers(ret.content)}

AnsweredOps ==
    {"answer", "_parse_lifespan_response", "get_ai_lifespan",
     "_search_part_lifespan_openai_only", "_search_part_lifespan_online"}

ParseLifespanResponse ==
    /\ ret.op \in AnsweredOps
    /\ ret' = [op |-> "_parse_lifespan_response", content |-> ret.content,
               value |-> _parse_lifespan_response(ret.content)]
    /\ UNCHANGED <<spare_parts, machines, use_openai, serpapi_key>>

GetAiLifespan ==
    /\ ret.op \in AnsweredOps
    /\ \E part_name \in {"Fuel filter", "Drive belt"}, ai \in AnswerBehaviours :
           LET run == get_ai_lifespan(Str(part_name), ai) IN
           ret' = [op |-> "get_ai_lifespan", content |-> ret.content,
                   part_name |-> part_name, ai |-> ai,
                   raised |-> run.raised, value |-> run.value, stages |-> run.stages]
    /\ UNCHANGED <<spare_parts, machines, use_openai, serpapi_key>>

SearchPartLifespanOpenaiOnly ==
    /\ ret.op \in AnsweredOps
    /\ \E ai \in AnswerBehaviours :
           LET run == _search_part_lifespan_openai_only(ai) IN
           ret' = [op |-> "_search_part_lifespan_openai_only", content |-> ret.content,
                   ai_only |-> ai, value |-> run.value, searched |-> run.searched,
                   ai_calls |-> run.ai_calls]
    /\ UNCHANGED <<spare_parts, machines, use_openai, serpapi_key>>

SearchPartLifespanOnline ==
    /\ ret.op \in AnsweredOps
    /\ \E search \in SearchBehaviours, ai \in AnswerBehaviours, ai_only \in AnswerBehaviours :
           LET run == _search_part_lifespan_online(search, ai, ai_only) IN
           ret' = [op |-> "_search_part_lifespan_online", content |-> ret.content,
                   search |-> search, ai |-> ai, ai_only |-> ai_only,
                   value |-> run.value, searched |-> run.searched,
                   ai_calls |-> run.ai_calls]
    /\ UNCHANGED <<spare_parts, machines, use_openai, serpapi_key>>

\* an agent with or without its two credentials and an answer about to be given
InitAnswers ==
    /\ spare_parts = <<>>
    /\ machines = <<>>
    /\ use_openai \in BOOLEAN
    /\ serpapi_key \in BOOLEAN
    /\ ret \in {[op |-> "answer", content |-> c] : c \in Answers}

NextAnswers ==
    \/ ParseLifespanResponse
    \/ GetAiLifespan
    \/ SearchPartLifespanOpenaiOnly
    \/ SearchPartLifespanOnline

SpecAnswers == InitAnswers /\ [][NextAnswers]_vars

----------------------------------------------------------------------------
(* Properties of predict_part_replacements, stated on the records of the data set *)

\* the predictions of the last call, when it was a run of the predictor that returned
Predicted ==
    IF ret.op = "predict_part_replacements" /\ ~ret.raised
    THEN Range(ret.predictions) ELSE {}

\* the records of a pair whose identifiers are set and whose date parses
ValidRecords(equip_id, part_id) ==
    {i \in 1..Len(spare_parts) :
        /\ spare_parts[i].ROLLINGSTOCKID = equip_id
        /\ spare_parts[i].SPAREPARTID = part_id
        /\ spare_parts[i].REPLACEDATE.kind = "date"}

At(i) == spare_parts[i].REPLACEDATE.dt.t

\* record i comes before record j in date order (record order breaks ties)
Earlier(i, j) == At(i) < At(j) \/ (At(i) = At(j) /\ i < j)

\* the pairs of records of S that are neighbours in date order
Neighbours(S) ==
    {ij \in S \X S : /\ Earlier(ij[1], ij[2])
                      /\ ~\E k \in S : Earlier(ij[1], k) /\ Earlier(k, ij[2])}

RECURSIVE WholeDays(_)
\* the whole days between the two records of every pair of N, summed
WholeDays(N) ==
    IF N = {} THEN 0
    ELSE LET ij == CHOOSE x \in N : TRUE
         IN  ((At(ij[2]) - At(ij[1])) \div TicksPerDay) + WholeDays(N \ {ij})

Latest(S) == CHOOSE t \in {At(i) : i \in S} : \A i \in S : At(i) <= t
Earliest(S) == CHOOSE t \in {At(i) : i \in S} : \A i \in S : t <= At(i)

\* the equipment identifiers of the records, None left out
EquipmentIds ==
    {spare_parts[i].ROLLINGSTOCKID : i \in 1..Len(spare_parts)} \ {NoneId}

\* the equipment with at least 2 valid events for part_id
Donors(part_id) == {e \in EquipmentIds : Cardinality(ValidRecords(e, part_id)) >= 2}

RECURSIVE PooledDays(_, _)
PooledDays(E, part_id) ==
    IF E = {} THEN 0
    ELSE LET e == CHOOSE x \in E : TRUE
         IN  WholeDays(Neighbours(ValidRecords(e, part_id))) + PooledDays(E \ {e}, part_id)

RECURSIVE PooledCount(_, _)
PooledCount(E, part_id) ==
    IF E = {} THEN 0
    ELSE LET e == CHOOSE x \in E : TRUE
         IN  (Cardinality(ValidRecords(e, part_id)) - 1) + PooledCount(E \ {e}, part_id)

\* C1: a pair with at least 2 valid dates is predicted from its own history, and
\* its average_interval_days is the mean of the whole-day differences between
\* dates that are neighbours in sorted order; for dates without a time of day
\* that is (last - first) / (n - 1); the events 2022-01-01, 2022-07-01,
\* 2023-01-01 give 182.5
C1_PairHistoryMean ==
    \A q \in Predicted :
        LET S == ValidRecords(q.equipment_id, q.part_id)
            avg == q.average_interval_days
        IN  Cardinality(S) >= 2 =>
              /\ q.prediction_method = "equipment_specific_history"
              /\ avg.den > 0
              /\ avg.num * (Cardinality(S) - 1) = avg.den * WholeDays(Neighbours(S))
              /\ (\A i \in S : At(i) % TicksPerDay = 0) =>
                     avg.num * (Cardinality(S) - 1) * TicksPerDay
                         = avg.den * (Latest(S) - Earliest(S))
              /\ spare_parts = ScenarioEvents => 2 * avg.num = 365 * avg.den

\* a run over three or more events of one pair that are not in date order
C1_Witness ==
    \E q \in Predicted :
        LET S == ValidRecords(q.equipment_id, q.part_id)
        IN  /\ Cardinality(S) >= 3
            /\ \E i, j \in S : i < j /\ At(j) < At(i)
            /\ q.average_interval_days.num % q.average_interval_days.den # 0

\* C2: a pair with exactly 1 valid date has method part_type_average; its
\* interval is the mean of the intervals pooled over the equipment that have at
\* least 2 valid events for the part_id, and 365 days when there is no such equipment
C2_SingleDateFallback ==
    \A q \in Predicted :
        LET S == ValidRecords(q.equipment_id, q.part_id)
            avg == q.average_interval_days
            D == Donors(q.part_id)
        IN  Cardinality(S) = 1 =>
              /\ q.prediction_method = "part_type_average"
              /\ avg.den > 0
              /\ IF D # {}
                 THEN avg.num * PooledCount(D, q.part_id) = avg.den * PooledDays(D, q.part_id)
                 ELSE avg.num = DefaultIntervalDays * avg.den

\* a single-date pair next to an equipment with history for the same part, while
\* another part has history too
C2_Witness ==
    \E q \in Predicted :
        /\ Cardinality(ValidRecords(q.equipment_id, q.part_id)) = 1
        /\ Donors(q.part_id) # {}
        /\ q.average_interval_days.num > 0

\* C3: every prediction has average_interval_days > 0
C3_PositiveInterval ==
    \A q \in Predicted : q.average_interval_days.num > 0

\* C4 as claimed, for the pairs whose interval is positive: due is true exactly
\* when now is at or after the reported predicted_next_replacement date
C4_DueAgainstReportedDate ==
    \A q \in Predicted :
        q.average_interval_days.num > 0 =>
            (q.due <=> (ret.now >= q.predicted_next_replacement * TicksPerDay))

\* C4: due is true exactly when now is at or after the instant
\* last_replacement + interval, last_replacement being the latest valid instant
\* of the pair; the two reported dates are the calendar days of these instants
C4_DueAgainstPredictedInstant ==
    \A q \in Predicted :
        LET last == Latest(ValidRecords(q.equipment_id, q.part_id))
            avg == q.average_interval_days
            instant == last * avg.den + avg.num * TicksPerDay
        IN  /\ q.last_replacement = last \div TicksPerDay
            /\ q.predicted_next_replacement = instant \div (avg.den * TicksPerDay)
            /\ q.due <=> (ret.now * avg.den >= instant)

\* a run at the very instant a pair falls due, and a pair not yet due
C4_Witness ==
    /\ \E q \in Predicted :
           LET last == Latest(ValidRecords(q.equipment_id, q.part_id))
               avg == q.average_interval_days
           IN  q.due /\ ret.now * avg.den = last * avg.den + avg.num * TicksPerDay
    /\ \E q \in Predicted : ~q.due

\* no two valid events of the data set fall on the same calendar day
DistinctDays ==
    \A i, j \in 1..Len(spare_parts) :
        (/\ i # j
         /\ spare_parts[i].REPLACEDATE.kind = "date"
         /\ spare_parts[j].REPLACEDATE.kind = "date")
            => At(i) \div TicksPerDay # At(j) \div TicksPerDay

\* C5 as claimed, for data sets without two events on one day: the reported
\* dates differ by floor(average_interval_days)
C5_DifferenceIsFloor ==
    \A q \in Predicted :
        DistinctDays =>
            q.predicted_next_replacement - q.last_replacement
                = q.average_interval_days.num \div q.average_interval_days.den

\* C5: the reported dates differ by floor(average_interval_days) or one day
\* more, and by exactly floor(average_interval_days) when the last replacement
\* carries no time of day or the average is a whole number of days
C5_DifferenceWithinOneDay ==
    \A q \in Predicted :
        LET last == Latest(ValidRecords(q.equipment_id, q.part_id))
            avg == q.average_interval_days
            floor == avg.num \div avg.den
            diff == q.predicted_next_replacement - q.last_replacement
        IN  /\ diff \in {floor, floor + 1}
            /\ (last % TicksPerDay = 0 \/ avg.num % avg.den = 0) => diff = floor

\* a fractional average added to a last replacement that carries a time of day
C5_Witness ==
    \E q \in Predicted :
        /\ Latest(ValidRecords(q.equipment_id, q.part_id)) % TicksPerDay # 0
        /\ q.average_interval_days.num % q.average_interval_days.den # 0
        /\ q.predicted_next_replacement - q.last_replacement
               = (q.average_interval_days.num \div q.average_interval_days.den) + 1

----------------------------------------------------------------------------
(* Properties of the lifespan resolver *)

\* the last call was get_smart_part_lifespan
Resolved == ret.op = "get_smart_part_lifespan"

\* what _get_part_info_from_data gave the last call of the resolver
ResolvedInfo == _get_part_info_from_data(ret.part_id)

\* the AI service answered the last call with a number other than zero
AiSucceeded ==
    /\ ~ret.ai.raises
    /\ Truthy(_parse_lifespan_response(ret.ai.content))

\* C6 as claimed: get_smart_part_lifespan returns an integer >= 1 for every
\* part_id, credential setting and AI answer, and every prediction carries a
\* lifespan_months >= 1
C6_ResolverTotal ==
    /\ Resolved => (~ret.raised /\ ret.value >= 1)
    /\ ret.op = "predict_part_replacements" =>
           (~ret.raised /\ \A q \in Range(ret.predictions) : q.lifespan_months >= 1)

C8_StageFailureContained ==
    (Resolved /\ ResolvedInfo.found) =>
        /\ ~ret.raised
        /\ ~(use_openai /\ AiSucceeded) => ret.stages[Len(ret.stages)] = "category"

----------------------------------------------------------------------------
(* Properties of the two name classifiers *)

\* the month value the category table gives each category
CategoryMonths ==
    [cat \in {"filter", "bearing", "belt", "sensor", "motor", "seal", "electrical",
              "hydraulic", "general"} |->
        CASE cat = "filter" -> 6
          [] cat = "bearing" -> 36
          [] cat = "belt" -> 18
          [] cat = "sensor" -> 30
          [] cat = "motor" -> 60
          [] cat = "seal" -> 24
          [] cat = "electrical" -> 36
          [] cat = "hydraulic" -> 30
          [] cat = "general" -> 18]

\* C9 as claimed: _get_fallback_lifespan(name) is the table value of the category
\* _categorize_part assigns to name
C9_FallbackEqualsCategoryValue ==
    ret.op = "_get_fallback_lifespan" =>
        ret.value = CategoryMonths[_categorize_part(ret.part_name)]

\* the categories in the order of their priority
Priority ==
    <<"filter", "bearing", "belt", "sensor", "motor", "seal", "electrical", "hydraulic">>

\* one of the keywords of the i-th category occurs in the lower-cased name
Matches(i, part_name) ==
    LET words == <<FilterWords, BearingWords, BeltWords, SensorWords, MotorWords,
                   SealWords, ElectricalWords, HydraulicWords>>
    IN  \E w \in words[i] : contains(w, lower(part_name))

\* C10: _categorize_part returns the first category, in the order filter,
\* bearing, belt, sensor, motor, seal, electrical, hydraulic, one of whose
\* keywords occurs in the lower-cased name, and "general" exactly when none
\* does; "Fuel filter" and "hydraulic filter" are classified as "filter"
C10_PriorityOrder ==
    ret.op = "_categorize_part" =>
        /\ \A i \in 1..Len(Priority) :
               ret.value = Priority[i] <=>
                   /\ Matches(i, ret.part_name)
                   /\ \A j \in 1..(i - 1) : ~Matches(j, ret.part_name)
        /\ ret.value = "general" <=>
               \A i \in 1..Len(Priority) : ~Matches(i, ret.part_name)
        /\ ret.part_name \in {"Fuel filter", "hydraulic filter"} => ret.value = "filter"

\* a name holding keywords of two categories was given the earlier one
C10_Witness ==
    /\ ret.op = "_categorize_part"
    /\ ret.part_name = "hydraulic filter"
    /\ Matches(1, ret.part_name)
    /\ Matches(8, ret.part_name)
    /\ ret.value = "filter"

\* C11: without an AI credential the resolver makes no AI call: for a part found
\* in the data the category table is the only stage entered, and the value
\* returned is the category table's value for the part name
C11_TableIsSoleSource ==
    (Resolved /\ ~use_openai /\ ResolvedInfo.found) =>
        /\ ret.stages = <<"category">>
        /\ ResolvedInfo.part_name.kind = "str" =>
               /\ ~ret.raised
               /\ ret.value = _get_fallback_lifespan(ResolvedInfo.part_name.s)

\* a found part was resolved from the category table without a credential
C11_Witness ==
    /\ Resolved
    /\ ~use_openai
    /\ ResolvedInfo.found
    /\ ResolvedInfo.part_name = Str("Fuel filter")
    /\ ret.stages = <<"category">>
    /\ ret.value = 6

----------------------------------------------------------------------------
(* Properties of the estimators, stated on the answer of the AI service *)

\* the answer holds a digit
HasDigit(s) == \E i \in 1..Len(s) : CharAt(s, i) \in {CharAt(Digits, k) : k \in 1..10}

\* the integer formed by the first run of digits of the answer
FirstNumber(s) == int(FirstDigitRun(s))

\* the last call was get_ai_lifespan with a credential, and the AI service answered
AiAnswered == ret.op = "get_ai_lifespan" /\ use_openai /\ ~ret.ai.raises

\* C12 as claimed: the AI estimator stage gives the integer formed by the first
\* run of digits of the answer, and falls through to the category heuristic
\* when the answer holds no digit
C12_FirstDigitsOrFallThrough ==
    AiAnswered =>
        /\ HasDigit(ret.content) =>
               (ret.stages = <<"ai">> /\ ret.value = Some(FirstNumber(ret.content)))
        /\ ~HasDigit(ret.content) =>
               /\ ret.stages = <<"ai", "category">>
               /\ ret.value = Some(_get_fallback_lifespan(ret.part_name))

\* C12, amended: _parse_lifespan_response gives the integer formed by the first
\* run of digits of the answer and None when the answer holds no digit; the AI
\* estimator stage returns that integer when it is at least 1, and falls through
\* to the category heuristic when the answer holds no digit or the integer is 0
C12_FirstPositiveNumber ==
    /\ ret.op = "_parse_lifespan_response" =>
           ret.value = IF HasDigit(ret.content)
                       THEN Some(FirstNumber(ret.content)) ELSE None
    /\ AiAnswered =>
           IF HasDigit(ret.content) /\ FirstNumber(ret.content) >= 1
           THEN ret.stages = <<"ai">> /\ ret.value = Some(FirstNumber(ret.content))
           ELSE /\ ret.stages = <<"ai", "category">>
                /\ ret.value = Some(_get_fallback_lifespan(ret.part_name))

\* the answer "~12 months" was reduced to 12
C12_Witness ==
    /\ AiAnswered
    /\ ret.content = "~12 months"
    /\ ret.stages = <<"ai">>
    /\ ret.value = Some(12)

\* the last call was one of the two estimators of the web search stage
Estimated == ret.op \in {"_search_part_lifespan_online", "_search_part_lifespan_openai_only"}

\* the answer holds the sentinel "unknown" in some letter case
HasUnknown(s) == contains("unknown", lower(s))

\* C13: when the answer of the AI service holds the sentinel "unknown", in any
\* letter case, and is not a bare integer, _search_part_lifespan_online and
\* _search_part_lifespan_openai_only return None, whatever digits the answer holds
C13_UnknownIsFailure ==
    (Estimated /\ HasUnknown(ret.content) /\ ~isdigit(strip(ret.content))) =>
        ret.value = None

\* the web search gave results and the AI answered them with the sentinel and a number
C13_Witness ==
    /\ ret.op = "_search_part_lifespan_online"
    /\ serpapi_key
    /\ use_openai
    /\ ret.search = "results"
    /\ ~ret.ai.raises
    /\ ret.content = "unknown, maybe 12"
    /\ ret.searched
    /\ ret.value = None

\* C14: without a search credential _search_part_lifespan_online issues no web
\* search and returns what _search_part_lifespan_openai_only returns for the
\* same behaviour of the AI service, making the same AI calls
C14_NoKeyIsAiOnly ==
    (ret.op = "_search_part_lifespan_online" /\ ~serpapi_key) =>
        /\ ~ret.searched
        /\ ret.value = _search_part_lifespan_openai_only(ret.ai_only).value
        /\ ret.ai_calls = _search_part_lifespan_openai_only(ret.ai_only).ai_calls

\* without a search credential the estimator returned the AI-only number
C14_Witness ==
    /\ ret.op = "_search_part_lifespan_online"
    /\ ~serpapi_key
    /\ use_openai
    /\ ~ret.ai_only.raises
    /\ ret.content = "12 months"
    /\ ~ret.searched
    /\ ret.value = Some(12)

----------------------------------------------------------------------------
(* Properties of predict_part_replacements on malformed records *)

\* the last call was a run of the predictor
Ran == ret.op = "predict_part_replacements"

\* record i carries both identifiers
Identified(i) ==
    spare_parts[i].ROLLINGSTOCKID # NoneId /\ spare_parts[i].SPAREPARTID # NoneId

\* the pair of record i
PairOf(i) == <<spare_parts[i].ROLLINGSTOCKID, spare_parts[i].SPAREPARTID>>

\* the date of record i is null, empty, the "NULL" sentinel or unparseable
Malformed(i) == spare_parts[i].REPLACEDATE.kind # "date"

\* the pairs observed in the history: those of the records that carry both
\* identifiers and a valid date
ObservedPairs ==
    {PairOf(i) : i \in {k \in 1..Len(spare_parts) : Identified(k) /\ ~Malformed(k)}}

\* prediction q is what the valid records of its pair give: the latest of their
\* dates, their mean interval when there are two or more, the part-type average
\* or the 365-day default otherwise
FromValidRecords(q) ==
    LET S == ValidRecords(q.equipment_id, q.part_id)
        avg == q.average_interval_days
        D == Donors(q.part_id)
    IN  /\ S # {}
        /\ q.last_replacement = Latest(S) \div TicksPerDay
        /\ avg.den > 0
        /\ IF Cardinality(S) >= 2
           THEN /\ q.prediction_method = "equipment_specific_history"
                /\ avg.num * (Cardinality(S) - 1) = avg.den * WholeDays(Neighbours(S))
           ELSE /\ q.prediction_method = "part_type_average"
                /\ IF D # {}
                   THEN avg.num * PooledCount(D, q.part_id)
                            = avg.den * PooledDays(D, q.part_id)
                   ELSE avg.num = DefaultIntervalDays * avg.den

\* C15: a run of predict_part_replacements returns exactly one prediction for
\* each pair that has a record with both identifiers and a valid date, and no
\* prediction for any other pair
C15_OnePredictionPerPair ==
    Ran =>
        /\ ~ret.raised
        /\ {<<q.equipment_id, q.part_id>> : q \in Range(ret.predictions)} = ObservedPairs
        /\ Len(ret.predictions) = Cardinality(ObservedPairs)
        /\ \A i, j \in 1..Len(ret.predictions) :
               (/\ ret.predictions[i].equipment_id = ret.predictions[j].equipment_id
                /\ ret.predictions[i].part_id = ret.predictions[j].part_id) => i = j

\* two pairs were predicted from three records with a valid date
C15_Witness ==
    /\ Ran
    /\ Len(ret.predictions) = 2
    /\ \E i, j \in 1..Len(spare_parts) :
           i # j /\ ~Malformed(i) /\ ~Malformed(j)
                 /\ PairOf(i) = PairOf(j) /\ PairOf(i) \in ObservedPairs

\* C16 as claimed: a record with a malformed date never makes the run raise,
\* and its pair is still predicted, from the part-type average or the 365-day
\* default when fewer than 2 valid dates remain
C16_MalformedDatePairPredicted ==
    Ran =>
        /\ ~ret.raised
        /\ \A i \in 1..Len(spare_parts) :
               (Identified(i) /\ Malformed(i)) =>
                   \E q \in Range(ret.predictions) :
                       /\ <<q.equipment_id, q.part_id>> = PairOf(i)
                       /\ Cardinality(ValidRecords(q.equipment_id, q.part_id)) < 2
                              => q.prediction_method = "part_type_average"

\* C16, amended: a record with a malformed date never makes the run raise and
\* counts in no interval; its pair is predicted from its valid dates alone when
\* it has one at least (from the part-type average or the 365-day default when
\* exactly 1 valid date remains), and is not predicted when it has none
C16_MalformedDateExcluded ==
    Ran =>
        /\ ~ret.raised
        /\ \A q \in Range(ret.predictions) : FromValidRecords(q)
        /\ \A i \in 1..Len(spare_parts) :
               (Identified(i) /\ Malformed(i)) =>
                   IF PairOf(i) \in ObservedPairs
                   THEN \E q \in Range(ret.predictions) :
                            <<q.equipment_id, q.part_id>> = PairOf(i)
                   ELSE \A q \in Range(ret.predictions) :
                            <<q.equipment_id, q.part_id>> # PairOf(i)

\* a pair with one valid date and a malformed one was predicted from the
\* 365-day default, next to a pair whose only date is malformed
C16_Witness ==
    /\ Ran
    /\ \E i, j \in 1..Len(spare_parts) :
           /\ Identified(i) /\ Malformed(i) /\ ~Malformed(j) /\ PairOf(i) = PairOf(j)
           /\ \E q \in Range(ret.predictions) :
                  /\ <<q.equipment_id, q.part_id>> = PairOf(i)
                  /\ q.prediction_method = "part_type_average"
                  /\ q.average_interval_days.num = DefaultIntervalDays
    /\ \E i \in 1..Len(spare_parts) :
           Identified(i) /\ Malformed(i) /\ PairOf(i) \notin ObservedPairs

\* C17: a record without an equipment or a part identifier never makes the run
\* raise and counts in no pair and in no part-type average, while every record
\* with both identifiers, numeric or string, and a valid date counts in the
\* prediction of its pair
C17_NullIdentifierDiscarded ==
    Ran =>
        /\ ~ret.raised
        /\ \A q \in Range(ret.predictions) :
               /\ q.equipment_id # NoneId
               /\ q.part_id # NoneId
               /\ FromValidRecords(q)
        /\ \A i \in 1..Len(spare_parts) :
               (Identified(i) /\ ~Malformed(i)) =>
                   \E q \in Range(ret.predictions) :
                       /\ <<q.equipment_id, q.part_id>> = PairOf(i)
                       /\ i \in ValidRecords(q.equipment_id, q.part_id)

\* a pair with string identifiers and one date got the 365-day default next to
\* two dated records of its part that carry no equipment identifier
C17_Witness ==
    /\ Ran
    /\ \E i, j \in 1..Len(spare_parts) :
           /\ i # j
           /\ ~Identified(i) /\ ~Identified(j)
           /\ PairOf(i) = PairOf(j)
           /\ At(i) # At(j)
           /\ \E q \in Range(ret.predictions) :
                  /\ q.equipment_id = StrId("E1")
                  /\ q.part_id = spare_parts[i].SPAREPARTID
                  /\ q.prediction_method = "part_type_average"
                  /\ q.average_interval_days.num = DefaultIntervalDays

----------------------------------------------------------------------------
(* Properties of get_due_part_checks *)

\* the last call was a scan that returned
Scanned == ret.op = "get_due_part_checks" /\ ~ret.raised

\* the due checks of the last scan
DueChecks == IF Scanned THEN Range(ret.due_checks) ELSE {}

\* record i carries a valid date
Dated(i) == spare_parts[i].REPLACEDATE.kind = "date"

\* record i carries two numeric identifiers
Numbered(i) ==
    spare_parts[i].SPAREPARTID.typ = "int" /\ spare_parts[i].ROLLINGSTOCKID.typ = "int"

\* what the resolver gave for record i in the last scan
ResolvedFor(i) == get_smart_part_lifespan(spare_parts[i].SPAREPARTID, ret.services[i].smart)

\* the next_check instant of record i: its replacement instant plus
\* lifespan_months * 30 days
NextCheck(i) == At(i) + ResolvedFor(i).value * DaysPerMonth * TicksPerDay

\* C18 as claimed, for the records with numeric identifiers: a dated record is
\* reported exactly when now >= its next_check instant, and the reported
\* expected_next_check is the day of that instant; 2023-01-01 with 6 months
\* gives the 180th day after it and is reported on 2023-08-01
C18_DueExactlyFromNextCheck ==
    Scanned =>
        /\ \A i \in 1..Len(spare_parts) :
               (Numbered(i) /\ Dated(i)) =>
                   ((\E r \in DueChecks : r.record = i) <=> ret.now >= NextCheck(i))
        /\ \A r \in DueChecks :
               r.expected_next_check = NextCheck(r.record) \div TicksPerDay
        /\ (/\ Len(spare_parts) = 1
            /\ Numbered(1)
            /\ Dated(1)
            /\ At(1) = 0
            /\ ResolvedFor(1).value = 6
            /\ ret.now = 212 * TicksPerDay)
               => \E r \in DueChecks : r.expected_next_check = 180

\* C19 as claimed: every record with non-null identifiers, numeric or string, a
\* valid date and a resolved lifespan whose next_check instant has passed is in
\* the result, and no record without a date is
C19_EveryIdentifiedPairScanned ==
    Scanned =>
        /\ \A i \in 1..Len(spare_parts) :
               (Identified(i) /\ Dated(i) /\ ret.now >= NextCheck(i)) =>
                   \E r \in DueChecks : r.record = i
        /\ \A r \in DueChecks : Dated(r.record)

\* C20 as claimed: lifespan_source is "online" only when the reported
\* lifespan_months was given by an AI or online lookup, and "default" only when
\* it is the static default of the part
C20_SourceNamesTheFigure ==
    \A r \in DueChecks :
        /\ r.lifespan_source = "online" =>
               \/ ResolvedFor(r.record).stages = <<"ai">>
               \/ r.lifespan_months
                      = get_online_part_lifespan(r.part_id, ret.services[r.record].search,
                                                 ret.services[r.record].ai,
                                                 ret.services[r.record].ai_only).v
        /\ r.lifespan_source = "default" =>
               /\ ResolvedFor(r.record).stages[Len(ResolvedFor(r.record).stages)] = "default"
               /\ r.lifespan_months = DefaultLifespan(r.part_id)

----------------------------------------------------------------------------
(* Properties of repeated runs over one data set *)

\* two consecutive runs of predict_part_replacements at the same clock
SameClockRuns ==
    /\ ret.op = "predict_part_replacements"
    /\ ret'.op = "predict_part_replacements"
    /\ ret'.now = ret.now

\* C21: a run of predict_part_replacements that follows another run over the
\* same data set at the same evaluation time returns the same result: the same
\* list of predictions, lifespan_months included.
C21_RunsAgree ==
    [][SameClockRuns => /\ ret'.raised = ret.raised
                        /\ ret'.predictions = ret.predictions]_vars

----------------------------------------------------------------------------
(* Properties of the part-type table *)

\* the table of the last call, when it was a run of the interval estimator
Calculated == ret.op = "_calculate_part_lifespans_from_data" /\ ~ret.raised

\* C22: the part-type table holds, for a part_id, the mean of all intervals
\* between neighbouring dates pooled over the equipment with at least 2 valid
\* events for it, every interval counting once; a part_id without such an
\* equipment has no entry, and its single-event pairs are predicted with 365 days
C22_PartTypePool ==
    /\ Calculated =>
         \A part_id \in DOMAIN ret.part_lifespans :
             LET D == Donors(part_id)
                 entry == ret.part_lifespans[part_id]
             IN  IF D # {}
                 THEN /\ entry.has
                      /\ entry.den > 0
                      /\ entry.num * PooledCount(D, part_id)
                             = entry.den * PooledDays(D, part_id)
                 ELSE ~entry.has
    /\ \A q \in Predicted :
           (/\ Cardinality(ValidRecords(q.equipment_id, q.part_id)) = 1
            /\ Donors(q.part_id) = {})
           => /\ q.prediction_method = "part_type_average"
              /\ q.average_interval_days.num
                     = DefaultIntervalDays * q.average_interval_days.den

\* a table pooled over two equipment with different numbers of events whose mean
\* is not a whole number of days, next to a part without an entry
C22_Witness ==
    /\ Calculated
    /\ \E part_id \in DOMAIN ret.part_lifespans :
           LET D == Donors(part_id) IN
           /\ \E e1, e2 \in D : Cardinality(ValidRecords(e1, part_id))
                                   > Cardinality(ValidRecords(e2, part_id))
           /\ PooledDays(D, part_id) % PooledCount(D, part_id) # 0
           /\ ret.part_lifespans[part_id].has
    /\ \E part_id \in DOMAIN ret.part_lifespans : ~ret.part_lifespans[part_id].has

----------------------------------------------------------------------------
(* Properties of the construction of the agent *)

\* the last call was a run of the predictor or of the scanner
RanOverData == ret.op \in {"predict_part_replacements", "get_due_part_checks"}

\* the list a key of the file holds, [] for a key that is missing
ListOf(key) == IF key.kind = "list" THEN key.list ELSE <<>>

\* construction aborts when the file cannot be read as a JSON object, and every
\* run is made by an agent whose data is all of the file's two lists
NoRunOverPartialData ==
    /\ (ret.op = "__init__" /\ ret.file.kind # "object") => ret.raised
    /\ ret.op = "__init__" /\ ret.raised => spare_parts = <<>> /\ machines = <<>>
    /\ RanOverData =>
         /\ ret.file.kind = "object"
         /\ ret.file.spareparts.kind # "null" /\ ret.file.machines.kind # "null"
         /\ spare_parts = ListOf(ret.file.spareparts)
         /\ machines = ListOf(ret.file.machines)

\* no run of a constructed agent ends with an exception
NoRunRaises == RanOverData => ~ret.raised

\* C23: a failure to load the data file is the only fatal condition: the
\* constructor re-raises it, no run is made over partially loaded data, and no
\* run of a constructed agent is aborted by an exception
C23_LoadFailureOnlyFatal == NoRunOverPartialData /\ NoRunRaises

----------------------------------------------------------------------------
(* Properties of the snapshots attached to a prediction *)

\* the machines of the list that belong to equipment equip_id
MachinesOf(equip_id) ==
    {i \in 1..Len(machines) : machines[i].rollingstockId = equip_id}

\* the records of the data set that carry part part_id
RecordsOf(part_id) ==
    {i \in 1..Len(spare_parts) : spare_parts[i].SPAREPARTID = part_id}

\* C24: in a run of predict_part_replacements a pair whose equipment has no
\* machine record gets an empty machine snapshot, a pair whose part has no record
\* an empty part snapshot, and a snapshot that is not empty comes from a matching
\* record; the missing join is never an error: a run is aborted only when a part
\* name is null, whether or not the machines are there
C24_MissingJoinEmptySnapshot ==
    /\ \A q \in Predicted :
           /\ MachinesOf(q.equipment_id) = {} => ~q.machine.found
           /\ RecordsOf(q.part_id) = {} => ~q.part.found
           /\ q.machine.found =>
                  \E i \in MachinesOf(q.equipment_id) :
                      q.machine.machine_name = machines[i].name
           /\ q.part.found =>
                  \E i \in RecordsOf(q.part_id) : q.part.part_name = spare_parts[i].NOTE
    /\ (ret.op = "predict_part_replacements" /\ ret.raised) =>
           \E i \in 1..Len(spare_parts) : spare_parts[i].NOTE.kind = "null"

\* a run over a machine list that holds a machine of another equipment only: the
\* prediction is made, with an empty machine snapshot and a part snapshot
C24_Witness ==
    \E q \in Predicted :
        /\ machines # <<>>
        /\ MachinesOf(q.equipment_id) = {}
        /\ ~q.machine.found
        /\ q.part.found

----------------------------------------------------------------------------
(* Properties of the predictor over timestamps with and without a UTC offset *)

\* the pair (equip_id, part_id) has a valid event with and one without an offset
MixedAwareness(equip_id, part_id) ==
    \E i, j \in ValidRecords(equip_id, part_id) :
        spare_parts[i].REPLACEDATE.dt.aware /\ ~spare_parts[j].REPLACEDATE.dt.aware

\* C25: a run of predict_part_replacements over a data set in which a pair has
\* events with and events without a UTC offset is not aborted by the comparison
\* of an offset-aware with an offset-naive timestamp
C25_MixedAwarenessNeverFails ==
    (/\ ret.op = "predict_part_replacements"
     /\ \E i \in 1..Len(spare_parts) :
            MixedAwareness(spare_parts[i].ROLLINGSTOCKID, spare_parts[i].SPAREPARTID))
    => ~ret.raised

\* C26: of the valid records of a pair the scan reports the most recent one
\* only: a pair is in the result at most once, and a record that a later
\* replacement of the same pair has superseded is never reported
C26_LatestReplacementOnly ==
    Scanned =>
        /\ \A r1, r2 \in DueChecks :
               PairOf(r1.record) = PairOf(r2.record) => r1.record = r2.record
        /\ \A r \in DueChecks :
               LET pair == PairOf(r.record)
               IN  At(r.record) = Latest(ValidRecords(pair[1], pair[2]))

\* the part information the resolver works with when it is called for part_id
ResolverInfo(part_id) == _get_part_info_from_data(part_id)

\* C27: the resolver call made for the pair of a prediction works with the name
\* and the producer of a machine of the pair's equipment ("Unknown Machine" and
\* "Unknown" when it has none), and the part snapshot of the prediction is taken
\* from a record of the pair's part on the pair's equipment
C27_PairMetadata ==
    \A q \in Predicted :
        LET info == ResolverInfo(q.part_id)
            M == MachinesOf(q.equipment_id)
        IN  /\ IF M = {}
               THEN /\ info.machine_name = Str("Unknown Machine")
                    /\ info.manufacturer = Str("Unknown")
               ELSE \E i \in M : /\ info.machine_name = machines[i].name
                                 /\ info.manufacturer = machines[i].producer
            /\ \E i \in ValidRecords(q.equipment_id, q.part_id) :
                   q.part.part_name = spare_parts[i].NOTE

----------------------------------------------------------------------------
(* Frame of the runs *)

\* C28: a run of predict_part_replacements or of get_due_part_checks leaves the
\* loaded events and machines and the configuration of the agent as they were,
\* so after any sequence of runs the data is still what the constructor loaded
\* from the file (DEFAULT_PART_LIFESPANS is only read, with .get, and is a
\* constant of the module)
C28_RunsReadOnly ==
    /\ [][RanOverData' => /\ spare_parts' = spare_parts
                          /\ machines' = machines
                          /\ use_openai' = use_openai
                          /\ serpapi_key' = serpapi_key]_vars
    /\ [](RanOverData => /\ spare_parts = ListOf(ret.file.spareparts)
                         /\ machines = ListOf(ret.file.machines))

\* a scan that reports a due check over loaded events and machines
C28_Witness ==
    /\ ret.op = "get_due_part_checks"
    /\ ~ret.raised
    /\ ret.due_checks # <<>>
    /\ spare_parts # <<>>
    /\ machines # <<>>

----------------------------------------------------------------------------
(* Properties of the lifespans within one run *)

\* C29: in the result of one run of predict_part_replacements the predictions
\* of one part_id all carry the same lifespan_months
C29_OneLifespanPerPart ==
    \A q1, q2 \in Predicted :
        q1.part_id = q2.part_id => q1.lifespan_months = q2.lifespan_months

----------------------------------------------------------------------------
(* Properties of the hybrid lookup *)

\* an API answers the request with a lifespan value
AnswersWithValue(api) == api.key /\ api.response = "ok" /\ api.found /\ api.lifespan.some

\* the manufacturer API that serves the manufacturer of the call, if any
ManufacturerApiOf(part_info, apis) ==
    LET m == lower(part_info.manufacturer) IN
    IF contains("cat", m) THEN {apis.caterpillar}
    ELSE IF contains("cummins", m) THEN {apis.cummins}
    ELSE {}

\* the lifespans the three sources supply for the call of ret, in priority
\* order: the manufacturer API, the technical databases, the standards table
Supplied ==
    LET part_info == ret.part_info
        apis == ret.apis
        manufacturer ==
            IF part_info.part_number # "" /\ part_info.manufacturer # ""
            THEN {a.lifespan : a \in {b \in ManufacturerApiOf(part_info, apis) : AnswersWithValue(b)}}
            ELSE {}
        databases ==
            IF part_info.part_name # "" /\ part_info.machine_type # ""
            THEN IF AnswersWithValue(apis.partslink) THEN {apis.partslink.lifespan}
                 ELSE IF AnswersWithValue(apis.tecnet) THEN {apis.tecnet.lifespan}
                 ELSE {}
            ELSE {}
        standard ==
            {get_standard_lifespan(part_info.part_name, part_info.operating_conditions)}
                \ {None}
    IN  <<manufacturer, databases, standard>>

\* C30: get_part_lifespan returns the lifespan of the first of the three sources
\* that supplies one, and None only when none of them does; a source that answers
\* without a lifespan value is passed over
C30_FirstSupplyingSource ==
    ret.op = "get_part_lifespan" =>
        LET s == Supplied IN
        IF s[1] # {} THEN ret.value \in s[1]
        ELSE IF s[2] # {} THEN ret.value \in s[2]
        ELSE IF s[3] # {} THEN ret.value \in s[3]
        ELSE ret.value = None

====
